---- MODULE Spec2Model ----
(***************************************************************************)
(* LZW codecs with bounded-dictionary policies (freeze, LFU, LRU-basic,    *)
(* LRU with a signal on every eviction, LRU-signalled Opt-1 and Opt-2).    *)
(* A run compresses an input file into an artifact, hands the artifact to  *)
(* the matching decompressor and decodes it.  One action per loop          *)
(* iteration of compress() and of decompress().                            *)
(*                                                                         *)
(* Characters are their ordinals (chr/ord), phrases are sequences of       *)
(* ordinals, Python None is None for integers, NonePhrase for a slot that  *)
(* holds None, and an Optional key is a tuple of length 0 or 1.            *)
(***************************************************************************)
EXTENDS Integers, Sequences, FiniteSets, TLC

VARIABLES policy, alphabet_name, min_bits, max_bits, input, channel,
          cpc, cerr, pos, enc, writer, artifact,
          file, dpc, derr, dec, reader, out, obs,
          unit, history

vars == <<policy, alphabet_name, min_bits, max_bits, input, channel,
          cpc, cerr, pos, enc, writer, artifact,
          file, dpc, derr, dec, reader, out, obs, unit, history>>

\* ------------------------------------------------------------------ bounds
MaxLen == 9

MaxBits == 4

MaxLenSmall == 6

MaxLenMid == 7

MaxOps == 6

MaxWrites == 4

MaxReads == 4

MaxFileLen == 2

\* bytes after the header in a file given to decompress that compress did not write
MaxBodyLen == 2

\* bytes decompress may write for such a file before the model stops following it
MaxOut == 12

\* --------------------------------------------------------------- constants
None == -1

NonePhrase == <<None>>

OUTPUT_HISTORY_SIZE == 255

Policies == {"freeze", "lru_naive", "lfu", "lru", "lru_optimized", "lru_optimization2"}

Signalled == {"lru", "lru_optimized", "lru_optimization2"}

\* src/Clean: LZW-LRUv2.1-Clean.py and LZW-LFU-Clean.py, whose decoders set the slot of
\* their own victim to None and wait for the resync packet
CleanPolicies == {"lru_clean", "lfu_clean"}

\* the tools whose index is an LFUTracker
Counting == {"lfu", "lfu_clean"}

\* the tools that resynchronise through the output history
Windowed == {"lru_optimization2", "lru_clean", "lfu_clean"}

ALPHABETS(name) ==
  CASE name = "ascii" -> [i \in 1..128 |-> i - 1]
    [] name = "extendedascii" -> [i \in 1..256 |-> i - 1]
    [] name = "ab" -> <<97, 98>>

Range(s) == {s[i] : i \in 1..Len(s)}

\* ---------------------------------------------------------- bit operations
RECURSIVE BitOr(_, _)
BitOr(a, b) ==
  IF a = 0 THEN b
  ELSE IF b = 0 THEN a
  ELSE (IF a % 2 = 1 \/ b % 2 = 1 THEN 1 ELSE 0) + 2 * BitOr(a \div 2, b \div 2)

\* ------------------------------------------------------------- BitWriter
\* bytes([byte]) raises ValueError for byte > 255: recorded in .bad;
\* log is a history of the calls of write as <<value, num_bits>>, not a field of the class
NewBitWriter == [file |-> <<>>, buffer |-> 0, n_bits |-> 0, bad |-> FALSE, log |-> <<>>]

RECURSIVE Drain(_)
Drain(w) ==
  IF w.n_bits >= 8 /\ ~w.bad
  THEN LET nb   == w.n_bits - 8
           byte == w.buffer \div (2 ^ nb)
       IN IF byte > 255
          THEN [w EXCEPT !.n_bits = nb, !.bad = TRUE]
          ELSE Drain([file |-> Append(w.file, byte), buffer |-> w.buffer % (2 ^ nb),
                      n_bits |-> nb, bad |-> FALSE, log |-> w.log])
  ELSE w

BitWriter_write(w, value, num_bits) ==
  IF w.bad THEN w
  ELSE Drain([w EXCEPT !.buffer = BitOr(w.buffer * (2 ^ num_bits), value),
                       !.n_bits = w.n_bits + num_bits,
                       !.log = Append(w.log, <<value, num_bits>>)])

\* close() that drops the bits left in the buffer
BitWriter_close_no_flush(w) == w

BitWriter_close(w) ==
  IF w.bad THEN w
  ELSE IF w.n_bits > 0
  THEN LET byte == w.buffer * (2 ^ (8 - w.n_bits))
       IN IF byte > 255 THEN [w EXCEPT !.bad = TRUE]
          ELSE [w EXCEPT !.file = Append(w.file, byte)]
  ELSE w

\* "for c in entry: writer.write(ord(c), 8)": the characters are written left to right
\* (the left half, then the right half); an exception of a write ends the loop
RECURSIVE WriteChars(_, _)
WriteChars(w, s) ==
  IF s = <<>> \/ w.bad THEN w
  ELSE IF Len(s) = 1 THEN BitWriter_write(w, s[1], 8)
  ELSE LET h  == Len(s) \div 2
           w1 == WriteChars(w, SubSeq(s, 1, h))
       IN WriteChars(w1, SubSeq(s, h + 1, Len(s)))

\* ------------------------------------------------------------- BitReader
\* log: the width of every field read so far (history of the calls of read)
NewBitReader == [pos |-> 0, buffer |-> 0, n_bits |-> 0, log |-> <<>>]

RECURSIVE Fill(_, _, _)
Fill(r, f, num_bits) ==
  IF r.n_bits < num_bits /\ r.pos < Len(f)
  THEN Fill([pos |-> r.pos + 1, buffer |-> r.buffer * 256 + f[r.pos + 1],
             n_bits |-> r.n_bits + 8, log |-> r.log], f, num_bits)
  ELSE r

\* read() that leaves the bits it returned in the buffer
BitReader_read_unmasked(r, f, num_bits) ==
  LET g == Fill(r, f, num_bits)
  IN IF g.n_bits < num_bits
     THEN [reader |-> g, value |-> None]
     ELSE [reader |-> [g EXCEPT !.n_bits = g.n_bits - num_bits,
                                !.log = Append(g.log, num_bits)],
           value  |-> g.buffer \div (2 ^ (g.n_bits - num_bits))]

\* result: the reader afterwards and the value read (None at end of file)
BitReader_read(r, f, num_bits) ==
  LET g == Fill(r, f, num_bits)
  IN IF g.n_bits < num_bits
     THEN [reader |-> g, value |-> None]
     ELSE LET nb == g.n_bits - num_bits
          IN [reader |-> [pos |-> g.pos, buffer |-> g.buffer % (2 ^ nb), n_bits |-> nb,
                          log |-> Append(g.log, num_bits)],
              value  |-> g.buffer \div (2 ^ nb)]

\* ------------------------------------------------------ dictionary helpers
\* dictionary[k] = v and del dictionary[k]
Put(d, k, v) == [x \in DOMAIN d \cup {k} |-> IF x = k THEN v ELSE d[x]]

Del(d, k) == [x \in DOMAIN d \ {k} |-> d[x]]

\* ------------------------------------------------------------ LRUTracker
\* the linked list from head.next (most recent) to tail.prev (least recent)
NewLRUTracker == <<>>

LRU_contains(t, key) == \E i \in 1..Len(t) : t[i] = key

LRU_remove(t, key) == SelectSeq(t, LAMBDA k : k # key)

LRU_use(t, key) == <<key>> \o LRU_remove(t, key)

LRU_find_lru(t) == IF Len(t) = 0 THEN <<>> ELSE <<t[Len(t)]>>

\* the same class with its Node objects: nodes maps an object identity to the fields
\* of the Node, head and tail are the two sentinels, map is key -> Node
LRUTracker_init ==
  [map   |-> <<>>,
   head  |-> 0,
   tail  |-> 1,
   nodes |-> (0 :> [key |-> None, prev |-> None, next |-> 1])
               @@ (1 :> [key |-> None, prev |-> 0, next |-> None])]

LRUTracker_add_to_front(t, node) ==
  LET n1 == [t.nodes EXCEPT ![node].next = t.nodes[t.head].next]
      n2 == [n1 EXCEPT ![node].prev = t.head]
      n3 == [n2 EXCEPT ![n2[t.head].next].prev = node]
      n4 == [n3 EXCEPT ![t.head].next = node]
  IN [t EXCEPT !.nodes = n4]

LRUTracker_remove_node(t, node) ==
  LET n1 == [t.nodes EXCEPT ![t.nodes[node].prev].next = t.nodes[node].next]
      n2 == [n1 EXCEPT ![n1[node].next].prev = n1[node].prev]
  IN [t EXCEPT !.nodes = n2]

\* use() that leaves a key it already tracks where it is
LRUTracker_use_in_place(t, key) ==
  IF key \in DOMAIN t.map
  THEN t
  ELSE LET node == Cardinality(DOMAIN t.nodes)
           t1 == [t EXCEPT !.nodes = @ @@ (node :> [key |-> key, prev |-> None, next |-> None]),
                           !.map = Put(@, key, node)]
       IN LRUTracker_add_to_front(t1, node)

LRUTracker_use(t, key) ==
  IF key \in DOMAIN t.map
  THEN LRUTracker_add_to_front(LRUTracker_remove_node(t, t.map[key]), t.map[key])
  ELSE LET node == Cardinality(DOMAIN t.nodes)
           t1 == [t EXCEPT !.nodes = @ @@ (node :> [key |-> key, prev |-> None, next |-> None]),
                           !.map = Put(@, key, node)]
       IN LRUTracker_add_to_front(t1, node)

LRUTracker_find_lru(t) ==
  IF t.nodes[t.tail].prev = t.head THEN None ELSE t.nodes[t.nodes[t.tail].prev].key

LRUTracker_remove(t, key) ==
  IF key \in DOMAIN t.map
  THEN LRUTracker_remove_node([t EXCEPT !.map = Del(@, key)], t.map[key])
  ELSE t

\* ------------------------------------------------------------ LFUTracker
\* key_to_node: key -> freq; freq_to_list: freq -> bucket, most recent first
NewLFUTracker == [key_to_node |-> <<>>, freq_to_list |-> <<>>, min_freq |-> 0]

LFU_contains(t, key) == key \in DOMAIN t.key_to_node

Bucket(t, f) == IF f \in DOMAIN t.freq_to_list THEN t.freq_to_list[f] ELSE <<>>

SetBucket(ftl, f, b) == [g \in DOMAIN ftl \cup {f} |-> IF g = f THEN b ELSE ftl[g]]

\* use() that never lowers min_freq: a new key leaves it as it is unless the tracker is new
LFU_use_keep_min(t, key) ==
  IF ~LFU_contains(t, key)
  THEN [key_to_node  |-> [k \in DOMAIN t.key_to_node \cup {key} |->
                            IF k = key THEN 1 ELSE t.key_to_node[k]],
        freq_to_list |-> SetBucket(t.freq_to_list, 1, <<key>> \o Bucket(t, 1)),
        min_freq     |-> IF t.min_freq = 0 THEN 1 ELSE t.min_freq]
  ELSE LET old_freq == t.key_to_node[key]
           old_list == SelectSeq(t.freq_to_list[old_freq], LAMBDA k : k # key)
           ftl1     == SetBucket(t.freq_to_list, old_freq, old_list)
           t1       == [t EXCEPT !.freq_to_list = ftl1]
       IN [key_to_node  |-> [t.key_to_node EXCEPT ![key] = old_freq + 1],
           freq_to_list |-> SetBucket(ftl1, old_freq + 1, <<key>> \o Bucket(t1, old_freq + 1)),
           min_freq     |-> IF old_freq = t.min_freq /\ old_list = <<>>
                            THEN old_freq + 1 ELSE t.min_freq]

LFU_use(t, key) ==
  IF ~LFU_contains(t, key)
  THEN [key_to_node  |-> [k \in DOMAIN t.key_to_node \cup {key} |->
                            IF k = key THEN 1 ELSE t.key_to_node[k]],
        freq_to_list |-> SetBucket(t.freq_to_list, 1, <<key>> \o Bucket(t, 1)),
        min_freq     |-> 1]
  ELSE LET old_freq == t.key_to_node[key]
           old_list == SelectSeq(t.freq_to_list[old_freq], LAMBDA k : k # key)
           ftl1     == SetBucket(t.freq_to_list, old_freq, old_list)
           t1       == [t EXCEPT !.freq_to_list = ftl1]
       IN [key_to_node  |-> [t.key_to_node EXCEPT ![key] = old_freq + 1],
           freq_to_list |-> SetBucket(ftl1, old_freq + 1, <<key>> \o Bucket(t1, old_freq + 1)),
           min_freq     |-> IF old_freq = t.min_freq /\ old_list = <<>>
                            THEN old_freq + 1 ELSE t.min_freq]

LFU_find_lfu(t) ==
  LET min_list == Bucket(t, t.min_freq)
  IN IF min_list = <<>> THEN <<>> ELSE <<min_list[Len(min_list)]>>

LFU_remove(t, key) ==
  IF ~LFU_contains(t, key) THEN t
  ELSE LET f == t.key_to_node[key]
       IN [t EXCEPT !.key_to_node = [k \in DOMAIN t.key_to_node \ {key} |-> t.key_to_node[k]],
                    !.freq_to_list = SetBucket(t.freq_to_list, f,
                                       SelectSeq(t.freq_to_list[f], LAMBDA k : k # key))]

\* ------------------------------------------------- values fixed by a run
alphabet == ALPHABETS(alphabet_name)

valid_chars == Range(alphabet)

EOF_CODE == Len(alphabet)

max_size == 2 ^ max_bits

EVICT_SIGNAL == max_size - 1

\* ------------------------------------------------------------ code width
\* the width rule without its "code_bits < max_bits" condition
GrowWidth_unbounded(s, mb) ==
  IF s.next_code >= s.threshold
  THEN [s EXCEPT !.code_bits = s.code_bits + 1, !.threshold = s.threshold * 2]
  ELSE s

\* "if next_code >= threshold and code_bits < max_bits" with the threshold doubled
GrowWidth(s, mb) ==
  IF s.next_code >= s.threshold /\ s.code_bits < mb
  THEN [s EXCEPT !.code_bits = s.code_bits + 1, !.threshold = s.threshold * 2]
  ELSE s

\* the last check of compress(): the threshold is not doubled any more
GrowWidthFinal(s) ==
  IF s.next_code >= s.threshold /\ s.code_bits < max_bits
  THEN [s EXCEPT !.code_bits = s.code_bits + 1]
  ELSE s

\* tracker operations by policy (LFUTracker under lfu, LRUTracker otherwise)
T_contains(t, k) == IF policy \in Counting THEN LFU_contains(t, k) ELSE LRU_contains(t, k)

T_use(t, k) == IF policy \in Counting THEN LFU_use(t, k) ELSE LRU_use(t, k)

T_remove(t, k) == IF policy \in Counting THEN LFU_remove(t, k) ELSE LRU_remove(t, k)

T_find(t) == IF policy \in Counting THEN LFU_find_lfu(t) ELSE LRU_find_lru(t)

\* "if tracker.contains(current): tracker.use(current)"
\* TouchEmitted that also touches the phrase the match was extended through
TouchEmitted_with_prefix(e) ==
  LET p == SubSeq(e.current, 1, Len(e.current) - 1)
      t1 == IF policy # "freeze" /\ T_contains(e.tracker, e.current)
            THEN T_use(e.tracker, e.current) ELSE e.tracker
      t2 == IF policy # "freeze" /\ T_contains(t1, p) THEN T_use(t1, p) ELSE t1
  IN [e EXCEPT !.tracker = t2]

TouchEmitted(e) ==
  IF policy # "freeze" /\ T_contains(e.tracker, e.current)
  THEN [e EXCEPT !.tracker = T_use(e.tracker, e.current)]
  ELSE e

\* ------------------------------------------------------------ compressor
\* the first byte taken without the check
FirstCharOk_any(first_char) == TRUE

\* "if first_char not in valid_chars: raise ValueError(... at position 0 not in alphabet)"
FirstCharOk(first_char) == first_char \in valid_chars

\* "if char not in valid_chars: raise ValueError(... at position {pos} not in alphabet)"
CharOk(char) == char \in valid_chars

EncInit ==
  [dictionary |-> [p \in {<<alphabet[i]>> : i \in 1..Len(alphabet)} |->
                     (CHOOSE i \in 1..Len(alphabet) : alphabet[i] = p[1]) - 1],
   next_code  |-> Len(alphabet) + 1,
   code_bits  |-> min_bits,
   threshold  |-> 2 ^ min_bits,
   tracker    |-> IF policy \in Counting THEN NewLFUTracker ELSE NewLRUTracker,
   current    |-> <<>>,
   recently_evicted_code |-> None,
   evicted_codes    |-> <<>>,
   output_history   |-> <<>>,
   history_start_idx |-> 0,
   string_to_idx    |-> <<>>]

WriteHeader(w) ==
  WriteChars(BitWriter_write(BitWriter_write(BitWriter_write(w, min_bits, 8), max_bits, 8),
                             Len(alphabet), 16), alphabet)

\* InsertNew without the width check
InsertNew_same_width(e, combined) ==
  [e EXCEPT !.dictionary = Put(e.dictionary, combined, e.next_code),
            !.tracker = IF policy = "freeze" THEN e.tracker ELSE T_use(e.tracker, combined),
            !.next_code = e.next_code + 1]

\* insertion below the limit: width check, then dictionary[combined] = next_code
InsertNew(e, combined) ==
  LET g == GrowWidth(e, max_bits)
  IN [g EXCEPT !.dictionary = Put(g.dictionary, combined, g.next_code),
               !.tracker = IF policy = "freeze" THEN g.tracker ELSE T_use(g.tracker, combined),
               !.next_code = g.next_code + 1]

\* eviction of the LRU entry and reuse of its code (lru_naive, lru, optimized, optimization2)
EvictLRU(e, combined) ==
  LET lru_entry == T_find(e.tracker)[1]
      lru_code  == e.dictionary[lru_entry]
  IN [e EXCEPT !.dictionary = Put(Del(e.dictionary, lru_entry), combined, lru_code),
               !.tracker = T_use(T_remove(e.tracker, lru_entry), combined)]

\* lzw_freeze.py: the else branch of the main loop
Freeze_emit(e, w, char) ==
  LET combined == e.current \o <<char>>
      w1 == BitWriter_write(w, e.dictionary[e.current], e.code_bits)
      e1 == IF e.next_code < max_size THEN InsertNew(e, combined) ELSE e
  IN [enc |-> [e1 EXCEPT !.current = <<char>>], writer |-> w1,
      evicted |-> FALSE, signal |-> "none"]

\* Naive_emit that stops inserting once the dictionary is full
Naive_emit_frozen(e, w, char) ==
  LET combined == e.current \o <<char>>
      w1 == BitWriter_write(w, e.dictionary[e.current], e.code_bits)
      e1 == TouchEmitted(e)
      e2 == IF e1.next_code < max_size THEN InsertNew(e1, combined) ELSE e1
  IN [enc |-> [e2 EXCEPT !.current = <<char>>], writer |-> w1,
      evicted |-> FALSE, signal |-> "none"]

\* lzw_lru_naive.py: the else branch of the main loop
Naive_emit(e, w, char) ==
  LET combined == e.current \o <<char>>
      w1 == BitWriter_write(w, e.dictionary[e.current], e.code_bits)
      e1 == TouchEmitted(e)
      full == ~(e1.next_code < max_size)
      ev == full /\ T_find(e1.tracker) # <<>>
      e2 == IF ~full THEN InsertNew(e1, combined)
            ELSE IF ev THEN EvictLRU(e1, combined) ELSE e1
  IN [enc |-> [e2 EXCEPT !.current = <<char>>], writer |-> w1,
      evicted |-> ev, signal |-> "none"]

\* LFU_emit with the free code kept at max_size - 1 after an eviction
LFU_emit_no_increment(e, w, char) ==
  LET combined == e.current \o <<char>>
      w1 == BitWriter_write(w, e.dictionary[e.current], e.code_bits)
      e1 == TouchEmitted(e)
      ins == e1.next_code < max_size
      g  == GrowWidth(e1, max_bits)
      ev == ins /\ g.next_code = max_size - 1 /\ LFU_find_lfu(g.tracker) # <<>>
      lfu_entry == LFU_find_lfu(g.tracker)[1]
      g1 == IF ev THEN [g EXCEPT !.dictionary = Del(g.dictionary, lfu_entry),
                                 !.tracker = LFU_remove(g.tracker, lfu_entry)]
            ELSE g
      e2 == IF ins THEN [g1 EXCEPT !.dictionary = Put(g1.dictionary, combined, g1.next_code),
                                   !.tracker = LFU_use(g1.tracker, combined),
                                   !.next_code = IF ev THEN g1.next_code ELSE g1.next_code + 1]
            ELSE e1
  IN [enc |-> [e2 EXCEPT !.current = <<char>>], writer |-> w1,
      evicted |-> ev, signal |-> "none"]

\* lzw_lfu.py: the else branch of the main loop
LFU_emit(e, w, char) ==
  LET combined == e.current \o <<char>>
      w1 == BitWriter_write(w, e.dictionary[e.current], e.code_bits)
      e1 == TouchEmitted(e)
      ins == e1.next_code < max_size
      g  == GrowWidth(e1, max_bits)
      ev == ins /\ g.next_code = max_size - 1 /\ LFU_find_lfu(g.tracker) # <<>>
      lfu_entry == LFU_find_lfu(g.tracker)[1]
      g1 == IF ev THEN [g EXCEPT !.dictionary = Del(g.dictionary, lfu_entry),
                                 !.tracker = LFU_remove(g.tracker, lfu_entry)]
            ELSE g
      e2 == IF ins THEN [g1 EXCEPT !.dictionary = Put(g1.dictionary, combined, g1.next_code),
                                   !.tracker = LFU_use(g1.tracker, combined),
                                   !.next_code = g1.next_code + 1]
            ELSE e1
  IN [enc |-> [e2 EXCEPT !.current = <<char>>], writer |-> w1,
      evicted |-> ev, signal |-> "none"]

\* lzw_lru.py: a signal [EVICT_SIGNAL][code][length][chars] on every eviction
WriteFullSignal(w, code, code_bits, entry) ==
  WriteChars(BitWriter_write(BitWriter_write(BitWriter_write(w, EVICT_SIGNAL, code_bits),
                                             code, code_bits), Len(entry), 16), entry)

LRU_emit(e, w, char) ==
  LET combined == e.current \o <<char>>
      w1 == BitWriter_write(w, e.dictionary[e.current], e.code_bits)
      e1 == TouchEmitted(e)
      full == ~(e1.next_code < EVICT_SIGNAL)
      ev == full /\ T_find(e1.tracker) # <<>>
      lru_code == e1.dictionary[T_find(e1.tracker)[1]]
      w2 == IF ev THEN WriteFullSignal(w1, lru_code, e1.code_bits, combined) ELSE w1
      e2 == IF ~full THEN InsertNew(e1, combined)
            ELSE IF ev THEN EvictLRU(e1, combined) ELSE e1
  IN [enc |-> [e2 EXCEPT !.current = <<char>>], writer |-> w2,
      evicted |-> ev, signal |-> IF ev THEN "full" ELSE "none"]

\* the packet written after the data code instead of before it
Opt1_emit_after(e, w, char) ==
  LET combined == e.current \o <<char>>
      output_code == e.dictionary[e.current]
      sig == output_code = e.recently_evicted_code
      w1 == BitWriter_write(w, output_code, e.code_bits)
      w2 == IF sig THEN WriteFullSignal(w1, output_code, e.code_bits, e.current) ELSE w1
      e1 == [TouchEmitted(e) EXCEPT !.recently_evicted_code = None]
      full == ~(e1.next_code < EVICT_SIGNAL)
      ev == full /\ T_find(e1.tracker) # <<>>
      lru_code == e1.dictionary[T_find(e1.tracker)[1]]
      e2 == IF ~full THEN InsertNew(e1, combined)
            ELSE IF ev THEN [EvictLRU(e1, combined) EXCEPT !.recently_evicted_code = lru_code]
            ELSE e1
  IN [enc |-> [e2 EXCEPT !.current = <<char>>], writer |-> w2,
      evicted |-> ev, signal |-> IF sig THEN "full" ELSE "none"]

\* lzw_lru_optimized.py: a signal only when the code about to be written is the
\* code reused by the eviction of the previous step
Opt1_emit(e, w, char) ==
  LET combined == e.current \o <<char>>
      output_code == e.dictionary[e.current]
      sig == output_code = e.recently_evicted_code
      w1 == IF sig THEN WriteFullSignal(w, output_code, e.code_bits, e.current) ELSE w
      w2 == BitWriter_write(w1, output_code, e.code_bits)
      e1 == [TouchEmitted(e) EXCEPT !.recently_evicted_code = None]
      full == ~(e1.next_code < EVICT_SIGNAL)
      ev == full /\ T_find(e1.tracker) # <<>>
      lru_code == e1.dictionary[T_find(e1.tracker)[1]]
      e2 == IF ~full THEN InsertNew(e1, combined)
            ELSE IF ev THEN [EvictLRU(e1, combined) EXCEPT !.recently_evicted_code = lru_code]
            ELSE e1
  IN [enc |-> [e2 EXCEPT !.current = <<char>>], writer |-> w2,
      evicted |-> ev, signal |-> IF sig THEN "full" ELSE "none"]

\* the offset counted from the last entry as 0 instead of 1
Opt2_offset_zero(e, prefix) ==
  IF prefix \in DOMAIN e.string_to_idx /\ e.string_to_idx[prefix] >= e.history_start_idx
  THEN (e.history_start_idx + Len(e.output_history) - 1) - e.string_to_idx[prefix]
  ELSE None

\* lzw_lru_optimization2.py: position of the prefix in the output history, or None
Opt2_offset(e, prefix) ==
  IF prefix \in DOMAIN e.string_to_idx /\ e.string_to_idx[prefix] >= e.history_start_idx
  THEN (e.history_start_idx + Len(e.output_history) - 1) - e.string_to_idx[prefix] + 1
  ELSE None

\* the resync packet for output_code: compact [offset][suffix] or [0][length][chars]
Opt2_signal(e, w, output_code) ==
  LET entry  == e.evicted_codes[output_code][1]
      prefix == e.evicted_codes[output_code][2]
      suffix == SubSeq(entry, Len(prefix) + 1, Len(entry))
      offset == Opt2_offset(e, prefix)
      w0 == BitWriter_write(BitWriter_write(w, EVICT_SIGNAL, e.code_bits),
                            output_code, e.code_bits)
  IN IF offset # None /\ offset > 255 /\ policy \in CleanPolicies
     THEN [writer |-> [w EXCEPT !.bad = TRUE], kind |-> "compact"]
     ELSE IF offset # None /\ offset <= 255
     THEN [writer |-> BitWriter_write(BitWriter_write(w0, offset, 8), suffix[1], 8),
           kind |-> "compact"]
     ELSE [writer |-> WriteChars(BitWriter_write(BitWriter_write(w0, 0, 8), Len(entry), 16),
                                 entry),
           kind |-> "full"]

\* append the emitted phrase to the output history; pop_oldest is FALSE for the final phrase
Opt2_push(e, pop_oldest) ==
  LET current_global_idx == e.history_start_idx + Len(e.output_history)
      h == Append(e.output_history, e.current)
      over == pop_oldest /\ Len(h) > OUTPUT_HISTORY_SIZE
  IN [e EXCEPT !.output_history = IF over THEN Tail(h) ELSE h,
               !.string_to_idx = Put(e.string_to_idx, e.current, current_global_idx),
               !.history_start_idx = IF over THEN e.history_start_idx + 1
                                     ELSE e.history_start_idx]

Opt2_emit(e, w, char) ==
  LET combined == e.current \o <<char>>
      output_code == e.dictionary[e.current]
      sig == output_code \in DOMAIN e.evicted_codes
      sg == Opt2_signal(e, w, output_code)
      w1 == IF sig THEN sg.writer ELSE w
      e0 == IF sig THEN [e EXCEPT !.evicted_codes = Del(e.evicted_codes, output_code)] ELSE e
      w2 == BitWriter_write(w1, output_code, e.code_bits)
      e1 == TouchEmitted(Opt2_push(e0, TRUE))
      full == ~(e1.next_code < EVICT_SIGNAL)
      ev == full /\ T_find(e1.tracker) # <<>>
      lru_code == e1.dictionary[T_find(e1.tracker)[1]]
      e2 == IF ~full THEN InsertNew(e1, combined)
            ELSE IF ev
            THEN [EvictLRU(e1, combined) EXCEPT
                    !.evicted_codes = Put(e1.evicted_codes, lru_code, <<combined, e1.current>>)]
            ELSE e1
  IN [enc |-> [e2 EXCEPT !.current = <<char>>], writer |-> w2,
      evicted |-> ev, signal |-> IF sig THEN sg.kind ELSE "none"]

\* the else branch of the main loop, by tool
Emit(e, w, char) ==
  CASE policy = "freeze" -> Freeze_emit(e, w, char)
    [] policy = "lru_naive" -> Naive_emit(e, w, char)
    [] policy = "lfu" -> LFU_emit(e, w, char)
    [] policy = "lru" -> LRU_emit(e, w, char)
    [] policy = "lru_optimized" -> Opt1_emit(e, w, char)
    [] policy \in Windowed -> Opt2_emit(e, w, char)

\* after the loop: final phrase (with its signal), width check, EOF, close
EmitFinal(e, w) ==
  LET final_code == e.dictionary[e.current]
      sig == \/ policy = "lru_optimized" /\ final_code = e.recently_evicted_code
             \/ policy \in Windowed /\ final_code \in DOMAIN e.evicted_codes
      sg == Opt2_signal(e, w, final_code)
      w1 == IF ~sig THEN w
            ELSE IF policy = "lru_optimized"
            THEN WriteFullSignal(w, final_code, e.code_bits, e.current)
            ELSE sg.writer
      e0 == IF sig /\ policy \in Windowed
            THEN [e EXCEPT !.evicted_codes = Del(e.evicted_codes, final_code)] ELSE e
      w2 == BitWriter_write(w1, final_code, e.code_bits)
      e1 == TouchEmitted(IF policy \in Windowed THEN Opt2_push(e0, FALSE) ELSE e0)
      e2 == GrowWidthFinal(e1)
      w3 == BitWriter_close(BitWriter_write(w2, EOF_CODE, e2.code_bits))
  IN [enc |-> e2, writer |-> w3, evicted |-> FALSE,
      signal |-> IF ~sig THEN "none" ELSE IF policy = "lru_optimized" THEN "full" ELSE sg.kind]

\* ---------------------------------------------------------- decompressor
\* exceptions: "Truncated" is ValueError("Corrupted file: unexpected end of file"),
\* "InvalidCode" is ValueError("Invalid codeword") / ("Invalid first codeword"),
\* "InvalidSignal" is ValueError("Invalid offset"); TypeError, KeyError, IndexError and
\* AttributeError are the interpreter's own
Fail(d, r, o, kind) == [dec |-> d, reader |-> r, out |-> o, pc |-> "error", err |-> kind,
                        what |-> "error"]

Ok(d, r, o, pc, what) == [dec |-> d, reader |-> r, out |-> o, pc |-> pc, err |-> "none",
                          what |-> what]

\* ''.join(chr(reader.read(8)) for _ in range(n)), read left to right (the left half,
\* then the right half); ok is FALSE when a read returned None, where chr(None) raises
RECURSIVE ReadChars(_, _, _)
ReadChars(r, f, n) ==
  IF n = 0 THEN [reader |-> r, value |-> <<>>, ok |-> TRUE]
  ELSE IF n = 1
  THEN LET c == BitReader_read(r, f, 8)
       IN IF c.value = None THEN [reader |-> c.reader, value |-> <<>>, ok |-> FALSE]
          ELSE [reader |-> c.reader, value |-> <<c.value>>, ok |-> TRUE]
  ELSE LET h    == n \div 2
           left == ReadChars(r, f, h)
       IN IF ~left.ok THEN left
          ELSE LET right == ReadChars(left.reader, f, n - h)
               IN [reader |-> right.reader, value |-> left.value \o right.value,
                   ok |-> right.ok]

DecInit ==
  [min_bits |-> None, max_bits |-> None, alphabet_size |-> None,
   dictionary |-> <<>>, next_code |-> 0, code_bits |-> 0, threshold |-> 0,
   tracker |-> IF policy \in Counting THEN NewLFUTracker ELSE NewLRUTracker,
   codeword |-> None, prev |-> <<>>, pending_addition |-> <<>>,
   skip_next_addition |-> FALSE, output_history |-> <<>>]

\* the special LZW case: current = prev + prev[0]
SpecialCase(prev) == prev \o <<prev[1]>>

\* the entry the decoder adds: prev + current[0]
NewEntry(prev, current) == prev \o <<current[1]>>

\* header, first codeword, first output
DecStart(r0, f) ==
  LET d0 == DecInit
      a == BitReader_read(r0, f, 8)
      b == BitReader_read(a.reader, f, 8)
      c == BitReader_read(b.reader, f, 16)
      al == ReadChars(c.reader, f, c.value)
      dh == [d0 EXCEPT !.min_bits = a.value, !.max_bits = b.value, !.alphabet_size = c.value,
                       !.dictionary = [i \in 0..(c.value - 1) |-> <<al.value[i + 1]>>],
                       !.next_code = c.value + 1, !.code_bits = a.value,
                       !.threshold = 2 ^ a.value]
      cw == BitReader_read(al.reader, f, dh.code_bits)
      codeword == cw.value
      d1 == [dh EXCEPT !.codeword = codeword]
      checked == policy \in {"lru_naive", "lru_optimized"}
  IN IF c.value = None THEN Fail(d0, c.reader, <<>>, "TypeError")
     ELSE IF ~al.ok THEN Fail(d0, al.reader, <<>>, "TypeError")
     ELSE IF codeword = None THEN Fail(d1, cw.reader, <<>>, "Truncated")
     ELSE IF codeword = d1.alphabet_size THEN Ok(d1, cw.reader, <<>>, "done", "eof")
     ELSE IF codeword \notin DOMAIN d1.dictionary
     THEN Fail(d1, cw.reader, <<>>, IF checked THEN "InvalidCode" ELSE "KeyError")
     ELSE LET prev == d1.dictionary[codeword]
          IN Ok([d1 EXCEPT !.prev = prev,
                           !.output_history = IF policy \in Windowed
                                              THEN <<prev>> ELSE <<>>],
                cw.reader, prev, "body", "first")

\* "if codeword in dictionary ... elif codeword == next_code ... else raise"
Decode(d, codeword) ==
  IF codeword \in DOMAIN d.dictionary THEN [err |-> "none", current |-> d.dictionary[codeword],
                                             what |-> "normal"]
  ELSE IF codeword = d.next_code
  THEN IF d.prev = <<>> THEN [err |-> "IndexError", current |-> <<>>, what |-> "error"]
       ELSE [err |-> "none", current |-> SpecialCase(d.prev), what |-> "special"]
  ELSE [err |-> "InvalidCode", current |-> <<>>, what |-> "error"]

\* the decoder freezing one entry before the encoder does
Freeze_add_early(d, codeword, current) ==
  IF d.next_code < 2 ^ d.max_bits - 1
  THEN [d EXCEPT !.dictionary = Put(d.dictionary, d.next_code, NewEntry(d.prev, current)),
                 !.next_code = d.next_code + 1]
  ELSE d

\* lzw_freeze.py: "if next_code < max_size: dictionary[next_code] = prev + current[0]"
Freeze_add(d, codeword, current) ==
  IF d.next_code < 2 ^ d.max_bits
  THEN [d EXCEPT !.dictionary = Put(d.dictionary, d.next_code, NewEntry(d.prev, current)),
                 !.next_code = d.next_code + 1]
  ELSE d

\* lzw_lru_naive.py: add or evict the decoder's own LRU code, then touch the codeword
Naive_add(d, codeword, current) ==
  LET ms == 2 ^ d.max_bits
      lru == LRU_find_lru(d.tracker)
      d1 == IF d.next_code < ms
            THEN [d EXCEPT !.dictionary = Put(d.dictionary, d.next_code, NewEntry(d.prev, current)),
                           !.tracker = LRU_use(d.tracker, d.next_code),
                           !.next_code = d.next_code + 1]
            ELSE IF lru # <<>>
            THEN [d EXCEPT !.dictionary = Put(d.dictionary, lru[1], NewEntry(d.prev, current)),
                           !.tracker = LRU_use(LRU_remove(d.tracker, lru[1]), lru[1])]
            ELSE d
  IN IF codeword >= d.alphabet_size + 1 /\ codeword < ms /\ codeword \in DOMAIN d1.dictionary
     THEN [d1 EXCEPT !.tracker = LRU_use(d1.tracker, codeword)]
     ELSE d1

\* the decoder never counting the codes it decodes
LFU_touch_none(d, codeword) == d

\* lzw_lfu.py: "if codeword >= alphabet_size + 1: lfu_tracker.use(codeword)"
LFU_touch(d, codeword) ==
  IF codeword >= d.alphabet_size + 1
  THEN [d EXCEPT !.tracker = LFU_use(d.tracker, codeword)]
  ELSE d

\* lzw_lfu.py: at next_code == max_size - 1 the LFU code is invalidated (set to None),
\* the new entry goes to next_code, and the codeword is touched without a contains check
LFU_add(d, codeword, current) ==
  LET ms == 2 ^ d.max_bits
      lfu == LFU_find_lfu(d.tracker)
      ev == d.next_code = ms - 1 /\ lfu # <<>>
      d0 == IF ev THEN [d EXCEPT !.dictionary = Put(d.dictionary, lfu[1], NonePhrase),
                                 !.tracker = LFU_remove(d.tracker, lfu[1])]
            ELSE d
      d1 == IF d.next_code < ms
            THEN [d0 EXCEPT !.dictionary = Put(d0.dictionary, d0.next_code, NewEntry(d.prev, current)),
                            !.tracker = LFU_use(d0.tracker, d0.next_code),
                            !.next_code = d0.next_code + 1]
            ELSE d
  IN LFU_touch(d1, codeword)

\* lzw_lru.py: no limit and no tracker, next_code keeps incrementing
LRU_add(d, codeword, current) ==
  [d EXCEPT !.dictionary = Put(d.dictionary, d.next_code, NewEntry(d.prev, current)),
            !.next_code = d.next_code + 1]

\* one iteration of the main loop of the decoders without signals
\* (lzw_freeze.py, lzw_lru_naive.py, lzw_lfu.py)
PlainStep(d, r, f, o) ==
  LET dg == GrowWidth(d, d.max_bits)
      cw == BitReader_read(r, f, dg.code_bits)
      codeword == cw.value
      d1 == [dg EXCEPT !.codeword = codeword]
      dc == Decode(d1, codeword)
      current == dc.current
      d2 == CASE policy = "freeze" -> Freeze_add(d1, codeword, current)
              [] policy = "lru_naive" -> Naive_add(d1, codeword, current)
              [] policy = "lfu" -> LFU_add(d1, codeword, current)
  IN IF codeword = None THEN Fail(d1, cw.reader, o, "Truncated")
     ELSE IF codeword = d1.alphabet_size THEN Ok(d1, cw.reader, o, "done", "eof")
     ELSE IF dc.err # "none" THEN Fail(d1, cw.reader, o, dc.err)
     ELSE IF current = NonePhrase THEN Fail(d1, cw.reader, o, "AttributeError")
     ELSE Ok([d2 EXCEPT !.prev = current], cw.reader, o \o current, "body", dc.what)

\* the entry length read as one byte instead of 16 bits
ReadFullSignal_len8(d, r, f) ==
  LET ec == BitReader_read(r, f, d.code_bits)
      ln == BitReader_read(ec.reader, f, 8)
      en == ReadChars(ln.reader, f, ln.value)
  IN IF ln.value = None THEN [ok |-> FALSE, err |-> "TypeError", reader |-> ln.reader]
     ELSE IF ~en.ok THEN [ok |-> FALSE, err |-> "TypeError", reader |-> en.reader]
     ELSE [ok |-> TRUE, err |-> "none", reader |-> en.reader,
           code |-> ec.value, new_entry |-> en.value]

\* [code][entry_length][chars] after EVICT_SIGNAL (lzw_lru.py, lzw_lru_optimized.py)
ReadFullSignal(d, r, f) ==
  LET ec == BitReader_read(r, f, d.code_bits)
      ln == BitReader_read(ec.reader, f, 16)
      en == ReadChars(ln.reader, f, ln.value)
  IN IF ln.value = None THEN [ok |-> FALSE, err |-> "TypeError", reader |-> ln.reader]
     ELSE IF ~en.ok THEN [ok |-> FALSE, err |-> "TypeError", reader |-> en.reader]
     ELSE [ok |-> TRUE, err |-> "none", reader |-> en.reader,
           code |-> ec.value, new_entry |-> en.value]

\* [code][offset][suffix] or [code][0][entry_length][chars] (lzw_lru_optimization2.py)
ReadOpt2Signal(d, r, f) ==
  LET ec == BitReader_read(r, f, d.code_bits)
      off == BitReader_read(ec.reader, f, 8)
      sb == BitReader_read(off.reader, f, 8)
      ln == BitReader_read(off.reader, f, 16)
      en == ReadChars(ln.reader, f, ln.value)
      h == d.output_history
  IN IF off.value = None THEN [ok |-> FALSE, err |-> "TypeError", reader |-> off.reader]
     ELSE IF off.value > 0
     THEN IF sb.value = None THEN [ok |-> FALSE, err |-> "TypeError", reader |-> sb.reader]
          ELSE IF off.value > Len(h)
          THEN [ok |-> FALSE, err |-> "InvalidSignal", reader |-> sb.reader]
          ELSE [ok |-> TRUE, err |-> "none", reader |-> sb.reader, code |-> ec.value,
                new_entry |-> h[Len(h) - off.value + 1] \o <<sb.value>>]
     ELSE IF ln.value = None THEN [ok |-> FALSE, err |-> "TypeError", reader |-> ln.reader]
          ELSE IF ~en.ok THEN [ok |-> FALSE, err |-> "TypeError", reader |-> en.reader]
          ELSE [ok |-> TRUE, err |-> "none", reader |-> en.reader, code |-> ec.value,
                new_entry |-> en.value]

\* the slot update of a signal in the decoders that keep a tracker
ApplySignal(d, code, new_entry) ==
  LET t1 == IF code \in DOMAIN d.dictionary /\ code >= d.alphabet_size + 1
            THEN LRU_remove(d.tracker, code) ELSE d.tracker
  IN [d EXCEPT !.dictionary = Put(d.dictionary, code, new_entry),
               !.tracker = LRU_use(t1, code)]

\* the mirror addition overwriting the most recently used code when full
MirrorAdd_mru(d, new_entry) ==
  IF d.next_code < 2 ^ d.max_bits - 1
  THEN [d EXCEPT !.dictionary = Put(d.dictionary, d.next_code, new_entry),
                 !.tracker = LRU_use(d.tracker, d.next_code),
                 !.next_code = d.next_code + 1]
  ELSE IF d.tracker # <<>>
  THEN [d EXCEPT !.dictionary = Put(d.dictionary, d.tracker[1], new_entry)]
  ELSE d

\* add new_entry at next_code, or evict the decoder's own LRU code and reuse it
MirrorAdd(d, new_entry) ==
  LET lru == LRU_find_lru(d.tracker)
  IN IF d.next_code < 2 ^ d.max_bits - 1
     THEN [d EXCEPT !.dictionary = Put(d.dictionary, d.next_code, new_entry),
                    !.tracker = LRU_use(d.tracker, d.next_code),
                    !.next_code = d.next_code + 1]
     ELSE IF lru # <<>>
     THEN [d EXCEPT !.dictionary = Put(d.dictionary, lru[1], new_entry),
                    !.tracker = LRU_use(LRU_remove(d.tracker, lru[1]), lru[1])]
     ELSE d

\* TouchDecoded without the test that keeps the alphabet codes out of the index
TouchDecoded_any(d, codeword) ==
  IF codeword \in DOMAIN d.dictionary
  THEN [d EXCEPT !.tracker = LRU_use(d.tracker, codeword)]
  ELSE d

\* "if codeword >= alphabet_size + 1 and codeword < EVICT_SIGNAL: if codeword in dictionary"
TouchDecoded(d, codeword) ==
  IF codeword >= d.alphabet_size + 1 /\ codeword < 2 ^ d.max_bits - 1
     /\ codeword \in DOMAIN d.dictionary
  THEN [d EXCEPT !.tracker = LRU_use(d.tracker, codeword)]
  ELSE d

\* lzw_lru.py: one iteration of the main loop
LRU_step(d, r, f, o) ==
  LET dg == GrowWidth(d, d.max_bits)
      cw == BitReader_read(r, f, dg.code_bits)
      codeword == cw.value
      d1 == [dg EXCEPT !.codeword = codeword]
      sg == ReadFullSignal(d1, cw.reader, f)
      dc == Decode(d1, codeword)
      current == dc.current
  IN IF codeword = None THEN Fail(d1, cw.reader, o, "Truncated")
     ELSE IF codeword = d1.alphabet_size THEN Ok(d1, cw.reader, o, "done", "eof")
     ELSE IF codeword = 2 ^ d1.max_bits - 1
     THEN IF ~sg.ok THEN Fail(d1, sg.reader, o, sg.err)
          ELSE Ok([d1 EXCEPT !.dictionary = Put(d1.dictionary, sg.code, sg.new_entry)],
                  sg.reader, o, "body", "signal")
     ELSE IF dc.err # "none" THEN Fail(d1, cw.reader, o, dc.err)
     ELSE IF current = <<>> THEN Fail(d1, cw.reader, o, "IndexError")
     ELSE Ok([LRU_add(d1, codeword, current) EXCEPT !.prev = current],
             cw.reader, o \o current, "body", dc.what)

\* lzw_lru_optimized.py: one iteration; the addition of the previous iteration is
\* made after the width check and the read, before the codeword is decoded
Opt1_step(d, r, f, o) ==
  LET dg == GrowWidth(d, d.max_bits)
      cw == BitReader_read(r, f, dg.code_bits)
      codeword == cw.value
      d1 == [dg EXCEPT !.codeword = codeword]
      sg == ReadFullSignal(d1, cw.reader, f)
      d2 == IF d1.pending_addition # <<>>
            THEN [MirrorAdd(d1, d1.pending_addition[1] \o <<d1.pending_addition[2]>>)
                    EXCEPT !.pending_addition = <<>>]
            ELSE d1
      dc == Decode(d2, codeword)
      current == dc.current
      d3 == TouchDecoded(d2, codeword)
  IN IF codeword = None THEN Fail(d1, cw.reader, o, "Truncated")
     ELSE IF codeword = d1.alphabet_size THEN Ok(d1, cw.reader, o, "done", "eof")
     ELSE IF codeword = 2 ^ d1.max_bits - 1
     THEN IF ~sg.ok THEN Fail(d1, sg.reader, o, sg.err)
          ELSE Ok([ApplySignal(d1, sg.code, sg.new_entry) EXCEPT !.pending_addition = <<>>],
                  sg.reader, o, "body", "signal")
     ELSE IF dc.err # "none" THEN Fail(d2, cw.reader, o, dc.err)
     ELSE IF current = <<>> THEN Fail(d3, cw.reader, o, "IndexError")
     ELSE Ok([d3 EXCEPT !.pending_addition = <<d3.prev, current[1]>>, !.prev = current],
             cw.reader, o \o current, "body", dc.what)

\* lzw_lru_optimization2.py: one iteration of the main loop
Opt2_step(d, r, f, o) ==
  LET dg == GrowWidth(d, d.max_bits)
      cw == BitReader_read(r, f, dg.code_bits)
      codeword == cw.value
      d1 == [dg EXCEPT !.codeword = codeword]
      sg == ReadOpt2Signal(d1, cw.reader, f)
      dc == Decode(d1, codeword)
      current == dc.current
      h == Append(d1.output_history, current)
      d2 == [d1 EXCEPT !.output_history = IF Len(h) > OUTPUT_HISTORY_SIZE THEN Tail(h) ELSE h]
      d3 == IF d2.skip_next_addition THEN d2 ELSE MirrorAdd(d2, NewEntry(d2.prev, current))
      d4 == TouchDecoded([d3 EXCEPT !.skip_next_addition = FALSE], codeword)
  IN IF codeword = None THEN Fail(d1, cw.reader, o, "Truncated")
     ELSE IF codeword = d1.alphabet_size THEN Ok(d1, cw.reader, o, "done", "eof")
     ELSE IF codeword = 2 ^ d1.max_bits - 1
     THEN IF ~sg.ok THEN Fail(d1, sg.reader, o, sg.err)
          ELSE Ok([ApplySignal(d1, sg.code, sg.new_entry) EXCEPT !.skip_next_addition = TRUE],
                  sg.reader, o, "body", "signal")
     ELSE IF dc.err # "none" THEN Fail(d1, cw.reader, o, dc.err)
     ELSE IF current = <<>> /\ ~d2.skip_next_addition THEN Fail(d2, cw.reader, o, "IndexError")
     ELSE Ok([d4 EXCEPT !.prev = current], cw.reader, o \o current, "body", dc.what)

\* src/Clean: the slot update of a signal; LZW-LFU-Clean.py leaves the code in its index
\* when the slot holds None
Clean_apply(d, code, new_entry) ==
  LET t1 == IF /\ code \in DOMAIN d.dictionary
               /\ code >= d.alphabet_size + 1
               /\ (policy = "lfu_clean" => d.dictionary[code] # NonePhrase)
            THEN T_remove(d.tracker, code) ELSE d.tracker
  IN [d EXCEPT !.dictionary = Put(d.dictionary, code, new_entry),
               !.tracker = T_use(t1, code)]

\* the victim's code left out of the index after its slot is set to None
Clean_add_untracked(d, current) ==
  LET victim == T_find(d.tracker)
  IN IF d.next_code < 2 ^ d.max_bits - 1
     THEN [d EXCEPT !.dictionary = Put(d.dictionary, d.next_code, NewEntry(d.prev, current)),
                    !.tracker = T_use(d.tracker, d.next_code),
                    !.next_code = d.next_code + 1]
     ELSE IF victim # <<>>
     THEN [d EXCEPT !.dictionary = Put(d.dictionary, victim[1], NonePhrase),
                    !.tracker = T_remove(d.tracker, victim[1])]
     ELSE d

\* src/Clean: add prev + current[0] at next_code, or set the slot of the decoder's own
\* victim to None and enter its code in the index again
Clean_add(d, current) ==
  LET victim == T_find(d.tracker)
  IN IF d.next_code < 2 ^ d.max_bits - 1
     THEN [d EXCEPT !.dictionary = Put(d.dictionary, d.next_code, NewEntry(d.prev, current)),
                    !.tracker = T_use(d.tracker, d.next_code),
                    !.next_code = d.next_code + 1]
     ELSE IF victim # <<>>
     THEN [d EXCEPT !.dictionary = Put(d.dictionary, victim[1], NonePhrase),
                    !.tracker = T_use(T_remove(d.tracker, victim[1]), victim[1])]
     ELSE d

\* src/Clean: "if codeword >= alphabet_size + 1 and codeword < EVICT_SIGNAL: if codeword in
\* dictionary" with the tool's own index
Clean_touch(d, codeword) ==
  IF codeword >= d.alphabet_size + 1 /\ codeword < 2 ^ d.max_bits - 1
     /\ codeword \in DOMAIN d.dictionary
  THEN [d EXCEPT !.tracker = T_use(d.tracker, codeword)]
  ELSE d

\* src/Clean: one iteration of the main loop; current.encode raises AttributeError when
\* the slot of the codeword holds None
Clean_step(d, r, f, o) ==
  LET dg == GrowWidth(d, d.max_bits)
      cw == BitReader_read(r, f, dg.code_bits)
      codeword == cw.value
      d1 == [dg EXCEPT !.codeword = codeword]
      sg == ReadOpt2Signal(d1, cw.reader, f)
      dc == Decode(d1, codeword)
      current == dc.current
      h == Append(d1.output_history, current)
      d2 == [d1 EXCEPT !.output_history = IF Len(h) > OUTPUT_HISTORY_SIZE THEN Tail(h) ELSE h]
      d3 == IF d2.skip_next_addition THEN d2 ELSE Clean_add(d2, current)
      d4 == Clean_touch([d3 EXCEPT !.skip_next_addition = FALSE], codeword)
  IN IF codeword = None THEN Fail(d1, cw.reader, o, "Truncated")
     ELSE IF codeword = d1.alphabet_size THEN Ok(d1, cw.reader, o, "done", "eof")
     ELSE IF codeword = 2 ^ d1.max_bits - 1
     THEN IF ~sg.ok THEN Fail(d1, sg.reader, o, sg.err)
          ELSE Ok([Clean_apply(d1, sg.code, sg.new_entry) EXCEPT !.skip_next_addition = TRUE],
                  sg.reader, o, "body", "signal")
     ELSE IF dc.err # "none" THEN Fail(d1, cw.reader, o, dc.err)
     ELSE IF current = NonePhrase THEN Fail(d1, cw.reader, o, "AttributeError")
     ELSE IF current = <<>> /\ ~d2.skip_next_addition /\ d2.next_code < 2 ^ d2.max_bits - 1
     THEN Fail(d2, cw.reader, o, "IndexError")
     ELSE Ok([d4 EXCEPT !.prev = current], cw.reader, o \o current, "body", dc.what)

\* one iteration of the main loop of decompress(), by tool
DecStep(d, r, f, o) ==
  CASE policy \in {"freeze", "lru_naive", "lfu"} -> PlainStep(d, r, f, o)
    [] policy = "lru" -> LRU_step(d, r, f, o)
    [] policy = "lru_optimized" -> Opt1_step(d, r, f, o)
    [] policy = "lru_optimization2" -> Opt2_step(d, r, f, o)
    [] policy \in CleanPolicies -> Clean_step(d, r, f, o)

\* ------------------------------------------------------------------ runs
Symbols == {97, 98}

SymbolsX == {97, 98, 99}

SeqsUpTo(S, n) == UNION {[1..k -> S] : k \in 0..n}

\* (min_bits, max_bits) with min_bits <= max_bits <= MaxBits and room for the reserved codes
ValidParams(p) ==
  {mm \in (1..MaxBits) \X (1..MaxBits) :
     /\ mm[1] <= mm[2]
     /\ 2 ^ mm[1] >= Len(ALPHABETS("ab"))
                       + (IF p \in Signalled \cup CleanPolicies THEN 3 ELSE 2)}

\* every (min_bits, max_bits) the command line accepts, up to MaxBits
AllParams == (1..MaxBits) \X (1..MaxBits)

ObsInit == [evictions |-> 0, signals |-> 0, fallbacks |-> 0, specials |-> 0,
            emitted |-> 0, last |-> "none", decoded |-> 0, pushed |-> <<>>,
            window_len |-> <<>>, enc_full |-> <<>>, dec_full |-> <<>>]

\* the variables of a compress / decompress run before compress() is called
InitCodec(ps, an, mm, in, ch) ==
  /\ policy = ps
  /\ alphabet_name = an
  /\ min_bits = mm[1]
  /\ max_bits = mm[2]
  /\ input = in
  /\ channel = ch
  /\ cpc = "start"
  /\ cerr = "none"
  /\ pos = 0
  /\ enc = EncInit
  /\ writer = NewBitWriter
  /\ artifact = <<>>
  /\ file = <<>>
  /\ dpc = "idle"
  /\ derr = "none"
  /\ dec = DecInit
  /\ reader = NewBitReader
  /\ out = <<>>
  /\ obs = ObsInit

InitRun(ps, an, mm, in, ch) ==
  /\ InitCodec(ps, an, mm, in, ch)
  /\ unit = NewLRUTracker
  /\ history = <<>>

Params == <<policy, alphabet_name, min_bits, max_bits, input, channel>>

\* an object driven on its own, and the calls made on it so far
UnitVars == <<unit, history>>

DecVars == <<file, dpc, derr, dec, reader, out>>

EncVars == <<cpc, cerr, pos, enc, writer, artifact>>

Count(o, res) ==
  [o EXCEPT !.evictions = @ + (IF res.evicted THEN 1 ELSE 0),
            !.signals = @ + (IF res.signal # "none" THEN 1 ELSE 0),
            !.fallbacks = @ + (IF res.signal = "full" THEN 1 ELSE 0),
            !.emitted = @ + 1,
            !.pushed = IF policy \in Windowed
                       THEN Append(@, res.enc.output_history[Len(res.enc.output_history)])
                       ELSE @,
            !.window_len = IF policy \in Windowed
                           THEN Append(@, Len(res.enc.output_history)) ELSE @,
            !.enc_full = IF policy = "lru_naive" /\ res.evicted
                         THEN LET combined == enc.current \o <<input[pos + 1]>>
                              IN Append(@, <<res.enc.dictionary[combined], combined>>)
                         ELSE @]

\* compress(): header, dictionary, first byte
CompressStart ==
  /\ cpc = "start"
  /\ LET w0 == WriteHeader(NewBitWriter)
         w1 == BitWriter_close(BitWriter_write(w0, EOF_CODE, min_bits))
     IN IF w0.bad
        THEN /\ cpc' = "error" /\ cerr' = "ValueError" /\ writer' = w0
             /\ UNCHANGED <<pos, enc, artifact>>
        ELSE IF input = <<>>
        THEN /\ writer' = w1
             /\ cpc' = IF w1.bad THEN "error" ELSE "done"
             /\ cerr' = IF w1.bad THEN "ValueError" ELSE "none"
             /\ artifact' = w1.file
             /\ UNCHANGED <<pos, enc>>
        ELSE IF ~FirstCharOk(input[1])
        THEN /\ cpc' = "error" /\ cerr' = "OutOfAlphabet" /\ writer' = w0
             /\ UNCHANGED <<pos, enc, artifact>>
        ELSE /\ cpc' = "loop" /\ writer' = w0 /\ pos' = 1
             /\ enc' = [EncInit EXCEPT !.current = <<input[1]>>]
             /\ UNCHANGED <<cerr, artifact>>
  /\ UNCHANGED <<Params, UnitVars, DecVars, obs>>

\* compress(): one iteration of the main loop
CompressStep ==
  /\ cpc = "loop"
  /\ pos < Len(input)
  /\ LET char == input[pos + 1]
         combined == enc.current \o <<char>>
         res == Emit(enc, writer, char)
     IN IF ~CharOk(char)
        THEN /\ cpc' = "error" /\ cerr' = "OutOfAlphabet"
             /\ UNCHANGED <<pos, enc, writer, artifact, obs>>
        ELSE IF combined \in DOMAIN enc.dictionary
        THEN /\ enc' = [enc EXCEPT !.current = combined]
             /\ pos' = pos + 1
             /\ UNCHANGED <<cpc, cerr, writer, artifact, obs>>
        ELSE /\ enc' = res.enc
             /\ writer' = res.writer
             /\ pos' = pos + 1
             /\ cpc' = IF res.writer.bad THEN "error" ELSE "loop"
             /\ cerr' = IF res.writer.bad THEN "ValueError" ELSE "none"
             /\ obs' = Count(obs, res)
             /\ UNCHANGED artifact
  /\ UNCHANGED <<Params, UnitVars, DecVars>>

\* compress(): end of input
CompressFinish ==
  /\ cpc = "loop"
  /\ pos = Len(input)
  /\ LET res == EmitFinal(enc, writer)
     IN /\ enc' = res.enc
        /\ writer' = res.writer
        /\ cpc' = IF res.writer.bad THEN "error" ELSE "done"
        /\ cerr' = IF res.writer.bad THEN "ValueError" ELSE "none"
        /\ artifact' = res.writer.file
        /\ obs' = Count(obs, res)
  /\ UNCHANGED <<Params, UnitVars, DecVars, pos>>

FlipBit(byte, b) == IF (byte \div (2 ^ b)) % 2 = 1 THEN byte - 2 ^ b ELSE byte + 2 ^ b

HeaderLen == 4 + Len(alphabet)

\* widths a header may declare, 0 included
HeaderWidths == {0, 1, 2}

BodyBytes == {0, 85, 255}

\* files that compress did not write: a well-formed header (min_bits, max_bits, alphabet
\* size in 16 bits, the alphabet) that declares any widths, followed by any bytes
AnyFiles ==
  {<<mm[1], mm[2], 0, n>> \o SubSeq(<<97, 98>>, 1, n) \o body :
     mm \in HeaderWidths \X HeaderWidths, n \in {1, 2}, body \in SeqsUpTo(BodyBytes, MaxBodyLen)}

\* what the decompressor is given: the artifact, a proper prefix of it, the artifact
\* with one bit of the body flipped, or a file from elsewhere
Delivered ==
  CASE channel = "intact" -> {artifact}
    [] channel = "any" -> AnyFiles
    [] channel = "truncated" -> {SubSeq(artifact, 1, k) : k \in 0..(Len(artifact) - 1)}
    [] channel = "corrupt" ->
         {[artifact EXCEPT ![i] = FlipBit(artifact[i], b)] :
            i \in (HeaderLen + 1)..Len(artifact), b \in 0..7}

Transfer ==
  /\ cpc = "done"
  /\ dpc = "idle"
  /\ \E f \in Delivered : file' = f
  /\ dpc' = "start"
  /\ UNCHANGED <<Params, UnitVars, EncVars, derr, dec, reader, out, obs>>

Land(res) ==
  /\ dec' = res.dec
  /\ reader' = res.reader
  /\ out' = res.out
  /\ dpc' = res.pc
  /\ derr' = res.err
  /\ obs' = [obs EXCEPT !.last = res.what,
                        !.specials = @ + (IF res.what = "special" THEN 1 ELSE 0),
                        !.decoded = @ + (IF res.what \in {"first", "normal", "special"}
                                         THEN 1 ELSE 0),
                        !.dec_full = IF /\ policy = "lru_naive" /\ dpc = "body"
                                        /\ res.what \in {"normal", "special"}
                                        /\ dec.next_code >= 2 ^ dec.max_bits
                                        /\ LRU_find_lru(dec.tracker) # <<>>
                                     THEN LET lru_code == LRU_find_lru(dec.tracker)[1]
                                          IN Append(@, <<lru_code, res.dec.dictionary[lru_code]>>)
                                     ELSE @]

\* decompress(): header, first codeword
DecompressStart ==
  /\ dpc = "start"
  /\ Land(DecStart(NewBitReader, file))
  /\ UNCHANGED <<Params, UnitVars, EncVars, file>>

\* decompress(): one iteration of the main loop
DecompressStep ==
  /\ dpc = "body"
  /\ channel = "any" => Len(out) < MaxOut
  /\ Land(DecStep(dec, reader, file, out))
  /\ UNCHANGED <<Params, UnitVars, EncVars, file>>

Next ==
  \/ CompressStart
  \/ CompressStep
  \/ CompressFinish
  \/ Transfer
  \/ DecompressStart
  \/ DecompressStep

\* an ascii input whose adjacent pairs never repeat: every step emits one code, so the
\* phrase "zz" entered at the first run of z is reused more than OUTPUT_HISTORY_SIZE
\* outputs later, at the second run of z
PairWalk(i) == 32 + (((i % 31) * ((i \div 31) + 1)) % 31)

HistoryGapInput ==
  [i \in 1..390 |-> PairWalk(i - 1)] \o <<122, 122, 122, 122>>
    \o [i \in 1..260 |-> PairWalk(389 + i)] \o <<122, 122, 122, 122>>

\* one tool, the two-letter alphabet, every valid width pair, every input up to MaxLen
InitPolicy(p) ==
  \E mm \in ValidParams(p), in \in SeqsUpTo(Symbols, MaxLen) :
    InitRun(p, "ab", mm, in, "intact")

InitFreeze == InitPolicy("freeze")

InitNaive == InitPolicy("lru_naive")

InitLFU == InitPolicy("lfu")

InitLRU == InitPolicy("lru")

InitOpt1 == InitPolicy("lru_optimized")

InitOpt2 ==
  \/ InitPolicy("lru_optimization2")
  \/ InitRun("lru_optimization2", "ascii", <<8, 9>>, HistoryGapInput, "intact")

\* "aaaaabbabaabababab": the shortest input over the two-letter alphabet at widths (3, 3)
\* on which the decoder of LZW-LFU-Clean.py meets a slot it has set to None
NoneSlotInput ==
  <<97, 97, 97, 97, 97, 98, 98, 97, 98, 97, 97, 98, 97, 98, 97, 98, 97, 98>>

\* the two tools of src/Clean over every input up to MaxLen, and the LFU one over
\* NoneSlotInput
InitClean ==
  \/ \E p \in CleanPolicies : InitPolicy(p)
  \/ InitRun("lfu_clean", "ab", <<3, 3>>, NoneSlotInput, "intact")

\* every tool over a truncated or corrupted artifact
InitChannel(ch) ==
  \E p \in Policies : \E mm \in ValidParams(p), in \in SeqsUpTo(Symbols, MaxLenSmall) :
    InitRun(p, "ab", mm, in, ch)

InitTrunc == InitChannel("truncated")

\* every tool's decompress run on a file from elsewhere
InitAnyFile == \E p \in Policies : InitRun(p, "ab", <<3, 3>>, <<97, 98>>, "any")

InitCorrupt == InitChannel("corrupt")

\* every tool called with any width pair
InitParams ==
  \E p \in Policies, mm \in AllParams, in \in SeqsUpTo(Symbols, MaxLenSmall) :
    InitRun(p, "ab", mm, in, "intact")

\* every tool over inputs that may hold an octet outside the alphabet
InitAlpha ==
  \E p \in Policies : \E mm \in ValidParams(p), in \in SeqsUpTo(SymbolsX, MaxLenSmall) :
    InitRun(p, "ab", mm, in, "intact")

\* the three tools that write resync packets
InitSignalled == \E p \in Signalled : InitPolicy(p)

\* every tool over an intact artifact
InitAll ==
  \E p \in Policies : \E mm \in ValidParams(p), in \in SeqsUpTo(Symbols, MaxLenMid) :
    InitRun(p, "ab", mm, in, "intact")

SpecFreeze == InitFreeze /\ [][Next]_vars

SpecNaive == InitNaive /\ [][Next]_vars

SpecLFU == InitLFU /\ [][Next]_vars

SpecLRU == InitLRU /\ [][Next]_vars

SpecOpt1 == InitOpt1 /\ [][Next]_vars

SpecOpt2 == InitOpt2 /\ [][Next]_vars

SpecTrunc == InitTrunc /\ [][Next]_vars

SpecAnyFile == InitAnyFile /\ [][Next]_vars

SpecCorrupt == InitCorrupt /\ [][Next]_vars

SpecParams == InitParams /\ [][Next]_vars

SpecAlpha == InitAlpha /\ [][Next]_vars

SpecAll == InitAll /\ [][Next]_vars

SpecSignalled == InitSignalled /\ [][Next]_vars

SpecClean == InitClean /\ [][Next]_vars

\* ------------------------------- a tracker, a writer, a reader driven on its own
\* keys handed to use() and remove()
Keys == {1, 2, 3}

CodecVars == <<Params, EncVars, DecVars, obs>>

InitUnit(t) ==
  /\ InitCodec("lru", "ab", <<3, 3>>, <<>>, "intact")
  /\ unit = t
  /\ history = <<>>

LRUUse ==
  \E key \in Keys :
    /\ Len(history) < MaxOps
    /\ unit' = LRUTracker_use(unit, key)
    /\ history' = Append(history, <<"use", key>>)
    /\ UNCHANGED CodecVars

LRURemove ==
  \E key \in Keys :
    /\ Len(history) < MaxOps
    /\ unit' = LRUTracker_remove(unit, key)
    /\ history' = Append(history, <<"remove", key>>)
    /\ UNCHANGED CodecVars

NextLRUTracker == LRUUse \/ LRURemove

SpecLRUTracker == InitUnit(LRUTracker_init) /\ [][NextLRUTracker]_vars

LFUUse ==
  \E key \in Keys :
    /\ Len(history) < MaxOps
    /\ unit' = LFU_use(unit, key)
    /\ history' = Append(history, <<"use", key>>)
    /\ UNCHANGED CodecVars

LFURemove ==
  \E key \in Keys :
    /\ Len(history) < MaxOps
    /\ unit' = LFU_remove(unit, key)
    /\ history' = Append(history, <<"remove", key>>)
    /\ UNCHANGED CodecVars

NextLFUTracker == LFUUse \/ LFURemove

SpecLFUTracker == InitUnit(NewLFUTracker) /\ [][NextLFUTracker]_vars

\* widths and values handed to BitWriter.write: for each width the smallest value, the
\* largest value of that width, and a value one bit wider
Widths == {1, 3, 9}

WriteValues(num_bits) == {0, 2 ^ num_bits - 1, 2 ^ num_bits + 1}

\* an exception of write() or close() leaves the caller: no further call
WriterWrite ==
  \E num_bits \in Widths : \E value \in WriteValues(num_bits) :
    /\ ~unit.closed /\ ~unit.writer.bad
    /\ Len(history) < MaxWrites
    /\ unit' = [unit EXCEPT !.writer = BitWriter_write(@, value, num_bits)]
    /\ history' = Append(history, <<value, num_bits>>)
    /\ UNCHANGED CodecVars

WriterClose ==
  /\ ~unit.closed /\ ~unit.writer.bad
  /\ unit' = [writer |-> BitWriter_close(unit.writer), closed |-> TRUE]
  /\ UNCHANGED <<CodecVars, history>>

NextBitWriter == WriterWrite \/ WriterClose

SpecBitWriter ==
  InitUnit([writer |-> NewBitWriter, closed |-> FALSE]) /\ [][NextBitWriter]_vars

\* files handed to BitReader and widths handed to read()
FileBytes == {0, 165, 255}

ReadWidths == {0, 1, 3, 8, 9, 16}

InitBitReader ==
  \E f \in SeqsUpTo(FileBytes, MaxFileLen) : InitUnit([reader |-> NewBitReader, file |-> f])

ReaderRead ==
  \E num_bits \in ReadWidths :
    /\ Len(history) < MaxReads
    /\ LET res == BitReader_read(unit.reader, unit.file, num_bits)
       IN /\ unit' = [unit EXCEPT !.reader = res.reader]
          /\ history' = Append(history, <<num_bits, res.value>>)
    /\ UNCHANGED CodecVars

SpecBitReader == InitBitReader /\ [][ReaderRead]_vars

\* ---------------------------------------------------------------- claims
\* compress did not fail, decompress did not fail, and a finished decode equals the input
RoundTrip == cpc # "error" /\ dpc # "error" /\ (dpc = "done" => out = input)

\* the decode finished with the input, after n codes or more were emitted
Decoded(n) == cpc = "done" /\ dpc = "done" /\ out = input /\ obs.emitted >= n

\* C1: under LRU-basic (lzw_lru_naive.py) compress never fails, decompress never fails,
\* and the output of a finished decode is exactly the input
C1_NaiveRoundTrip == policy = "lru_naive" => RoundTrip

\* C2: under LRU-signalled Opt-2 (lzw_lru_optimization2.py) compress never fails,
\* decompress never fails, and the output of a finished decode is exactly the input,
\* with compact and with literal resync packets in the artifact
C2_Opt2RoundTrip == policy = "lru_optimization2" => RoundTrip

\* a decoded run whose artifact holds a literal (offset 0) packet and a compact one
C2_Witness ==
  /\ policy = "lru_optimization2"
  /\ Decoded(1)
  /\ obs.fallbacks >= 1
  /\ obs.signals > obs.fallbacks

\* C3: under LRU-signalled Opt-1 (lzw_lru_optimized.py) compress never fails,
\* decompress never fails, and the output of a finished decode is exactly the input
C3_Opt1RoundTrip == policy = "lru_optimized" => RoundTrip

\* C4: under the variant that signals every eviction (lzw_lru.py), whose decoder keeps
\* no tracker, compress never fails, decompress never fails, and the output of a
\* finished decode is exactly the input
C4_LRURoundTrip == policy = "lru" => RoundTrip

\* a decoded run with two evictions or more, each one signalled
C4_Witness ==
  /\ policy = "lru"
  /\ Decoded(1)
  /\ obs.evictions >= 2
  /\ obs.signals = obs.evictions
  /\ dec.tracker = NewLRUTracker

\* C5: under LFU (lzw_lfu.py) compress never fails, decompress never fails, and the
\* output of a finished decode is exactly the input, also past the single eviction
C5_LFURoundTrip == policy = "lfu" => RoundTrip

\* a decoded run that evicted once and emitted two codes or more after the eviction
C5_Witness ==
  /\ policy = "lfu"
  /\ obs.evictions = 1
  /\ enc.next_code = max_size
  /\ Decoded(max_size - EOF_CODE + 1)

\* C6: under Freeze (lzw_freeze.py) compress never fails, decompress never fails, and
\* the output of a finished decode is exactly the input, also after the dictionary froze
C6_FreezeRoundTrip == policy = "freeze" => RoundTrip

\* a decoded run that emitted two codes or more after the last free code was taken
C6_Witness ==
  /\ policy = "freeze"
  /\ enc.next_code = max_size
  /\ dec.next_code = max_size
  /\ Decoded(max_size - EOF_CODE + 2)

\* C7: decompress of a proper prefix of an artifact ends, when it ends, with the
\* truncation error ("Corrupted file: unexpected end of file") and never with success
C7_TruncationDetected ==
  (channel = "truncated" /\ dpc \in {"done", "error"}) =>
    (dpc = "error" /\ derr = "Truncated")

\* min_bits > max_bits, or 2^min_bits below the alphabet plus its reserved codes
BadParams ==
  \/ min_bits > max_bits
  \/ 2 ^ min_bits < Len(alphabet) + (IF policy \in Signalled THEN 3 ELSE 2)

\* C8: a compress call with bad parameters writes nothing and goes no further than a
\* failure, which is BadParameters
C8_BadParametersRejected ==
  BadParams =>
    /\ cpc \in {"start", "error"}
    /\ cpc = "error" => cerr = "BadParameters"
    /\ writer.file = <<>>
    /\ artifact = <<>>

\* C9: compress fails only with OutOfAlphabet and only on an input that holds an octet
\* outside the alphabet; it never finishes on such an input, and no octet outside the
\* alphabet is ever among the octets taken into the encoding
C9_OutOfAlphabetIff ==
  /\ cpc = "error" =>
       (cerr = "OutOfAlphabet" /\ \E i \in 1..Len(input) : input[i] \notin valid_chars)
  /\ cpc = "done" => \A i \in 1..Len(input) : input[i] \in valid_chars
  /\ \A i \in 1..pos : input[i] \in valid_chars

\* compress stopped at an offending octet after it had emitted a code
C9_Witness ==
  /\ cpc = "error"
  /\ cerr = "OutOfAlphabet"
  /\ obs.emitted >= 1
  /\ input[pos + 1] \notin valid_chars

\* the codeword just read is not EOF_CODE, not the signal, not a code that holds a
\* phrase, and not the next free code with a previous phrase
InvalidRead ==
  /\ dec.codeword # None
  /\ dec.codeword # dec.alphabet_size
  /\ ~(policy \in Signalled /\ dec.codeword = 2 ^ dec.max_bits - 1)
  /\ ~(dec.codeword \in DOMAIN dec.dictionary /\ dec.dictionary[dec.codeword] # NonePhrase)
  /\ ~(dec.codeword = dec.next_code /\ dec.prev # <<>>)

\* C10: a step of decompress that fails on such a codeword fails with InvalidCode
\* ("Invalid codeword") and leaves the output as it was
C10_InvalidCodeRejected ==
  [][(dpc # "error" /\ dpc' = "error" /\ InvalidRead')
       => (derr' = "InvalidCode" /\ out' = out)]_vars

\* codes that never name a phrase: EOF_CODE, and EVICT_SIGNAL under the signalled policies
ReservedCodes == IF policy \in Signalled THEN 2 ELSE 1

\* entries of the compressor's dictionary (phrase -> code), the alphabet included
LiveEnc == Cardinality(DOMAIN enc.dictionary)

\* entries of the decompressor's dictionary (code -> phrase) that hold a phrase
LiveDec == Cardinality({c \in DOMAIN dec.dictionary : dec.dictionary[c] # NonePhrase})

\* C11: at every point of compress and of decompress, the number of live dictionary
\* entries is at most 2^max_bits minus the number of reserved codes of the policy
C11_DictionaryBound ==
  /\ LiveEnc <= max_size - ReservedCodes
  /\ LiveDec <= max_size - ReservedCodes

LastCall(key) ==
  LET S == {i \in 1..Len(history) : history[i][2] = key}
  IN IF S = {} THEN 0 ELSE CHOOSE i \in S : \A j \in S : j <= i

\* keys whose last call is use(): the tracked keys, with LastCall the time of last use
Tracked == {key \in Keys : LastCall(key) > 0 /\ history[LastCall(key)][1] = "use"}

\* keys of the linked list from head.next to tail, most recent first
RECURSIVE ListFrom(_, _)
ListFrom(t, node) ==
  IF node = t.tail \/ node = None THEN <<>>
  ELSE <<t.nodes[node].key>> \o ListFrom(t, t.nodes[node].next)

\* C13: after any sequence of use and remove on an LRUTracker, find_lru returns the
\* tracked key whose last use is the oldest, and None only when no key is tracked
C13_FindLRU ==
  LET r == LRUTracker_find_lru(unit)
  IN IF Tracked = {}
     THEN r = None
     ELSE r \in Tracked /\ \A key \in Tracked : LastCall(r) <= LastCall(key)

\* the key used first is still tracked, a key was removed, and find_lru names another
\* key because the first one was used again later
C13_Witness ==
  /\ Len(history) >= 4
  /\ history[1][2] \in Tracked
  /\ \E i \in 1..Len(history) : history[i][1] = "remove"
  /\ LRUTracker_find_lru(unit) \in Tracked \ {history[1][2]}

\* number of use() calls on key since it was last absent
UseCount(key) ==
  LET Removes == {i \in 1..Len(history) : history[i] = <<"remove", key>>}
      since == IF Removes = {} THEN 0 ELSE CHOOSE i \in Removes : \A j \in Removes : j <= i
  IN Cardinality({i \in (since + 1)..Len(history) : history[i] = <<"use", key>>})

\* C14: after any sequence of use and remove on an LFUTracker, find_lfu returns the
\* tracked key with the smallest (use count, time of last use) pair in lexicographic
\* order, and None only when no key is tracked
C14_FindLFU ==
  LET r == LFU_find_lfu(unit)
  IN IF Tracked = {}
     THEN r = <<>>
     ELSE /\ r # <<>>
          /\ r[1] \in Tracked
          /\ \A key \in Tracked :
               \/ UseCount(r[1]) < UseCount(key)
               \/ UseCount(r[1]) = UseCount(key) /\ LastCall(r[1]) <= LastCall(key)

\* the linked list read from head.next is the sequence LRU_use and LRU_remove build
ListIsSequence ==
  LET Replay[i \in 0..Len(history)] ==
        IF i = 0 THEN NewLRUTracker
        ELSE IF history[i][1] = "use" THEN LRU_use(Replay[i - 1], history[i][2])
             ELSE LRU_remove(Replay[i - 1], history[i][2])
  IN ListFrom(unit, unit.nodes[unit.head].next) = Replay[Len(history)]

\* codes whose slot in the decompressor's dictionary differs between two states
ChangedSlots(old, new) ==
  {c \in DOMAIN new : c \notin DOMAIN old \/ new[c] # old[c]}

BodyStart == 4 + Len(alphabet)

\* index in the log of the write that follows the packet whose EVICT_SIGNAL is l[i]:
\* [signal][code][length:16][characters], or under Opt-2 [signal][code][offset][suffix]
\* and [signal][code][0][length:16][characters]
PacketEnd(l, i) ==
  IF policy = "lru_optimization2"
  THEN IF l[i + 2][1] > 0 THEN i + 4 ELSE i + 4 + l[i + 3][1]
  ELSE i + 3 + l[i + 2][1]

\* indices of the log where a packet starts, reading the body from index i
RECURSIVE PacketStarts(_, _)
PacketStarts(l, i) ==
  IF i > Len(l) THEN {}
  ELSE IF l[i][1] = EVICT_SIGNAL THEN {i} \cup PacketStarts(l, PacketEnd(l, i))
  ELSE PacketStarts(l, i + 1)

Packets == PacketStarts(writer.log, BodyStart)

\* the write after packet i is the data code of the slot the packet names
FollowedByItsCode(l, i) ==
  PacketEnd(l, i) <= Len(l) /\ l[PacketEnd(l, i)][1] = l[i + 1][1]

WindowAt(n) == SubSeq(obs.pushed, n - obs.window_len[n] + 1, n)

\* C17: under Opt-2, when the decompressor has decoded as many data codes as the
\* compressor had emitted at some point, its output_history is the output_history the
\* compressor had at that point; the first conjunct says that WindowAt is that window
C17_SameWindow ==
  policy = "lru_optimization2"
    => /\ obs.emitted >= 1 => enc.output_history = WindowAt(obs.emitted)
       /\ (obs.decoded >= 1 /\ obs.decoded <= obs.emitted)
            => dec.output_history = WindowAt(obs.decoded)

\* number of keys a tracker holds
TrackerSize(t) == IF policy \in Counting THEN Cardinality(DOMAIN t.key_to_node) ELSE Len(t)

\* C18: the per-run structures stay within sizes fixed by max_bits and the window
\* capacity, whatever the input: dictionary, tracker and evicted_codes hold at most one
\* entry per code (2^max_bits), output_history at most OUTPUT_HISTORY_SIZE phrases (one
\* more after the final phrase), string_to_idx at most one key per window position and
\* per code
C18_BoundedStructures ==
  /\ Cardinality(DOMAIN enc.dictionary) <= max_size
  /\ Cardinality(DOMAIN dec.dictionary) <= max_size
  /\ TrackerSize(enc.tracker) <= max_size
  /\ TrackerSize(dec.tracker) <= max_size
  /\ Cardinality(DOMAIN enc.evicted_codes) <= max_size
  /\ Len(enc.output_history) <= OUTPUT_HISTORY_SIZE + 1
  /\ Len(dec.output_history) <= OUTPUT_HISTORY_SIZE
  /\ Cardinality(DOMAIN enc.string_to_idx) <= OUTPUT_HISTORY_SIZE + max_size

\* the low n bits of v, most significant first
LowBits(v, n) == [i \in 1..n |-> (v \div (2 ^ (n - i))) % 2]

\* the low num_bits bits of every value written so far, in call order
RECURSIVE WrittenBits(_)
WrittenBits(h) ==
  IF h = <<>> THEN <<>>
  ELSE WrittenBits(SubSeq(h, 1, Len(h) - 1)) \o LowBits(h[Len(h)][1], h[Len(h)][2])

\* zero bits up to a byte boundary, then eight bits per byte, most significant first
Packed(bits) ==
  LET padded == bits \o [i \in 1..((8 - (Len(bits) % 8)) % 8) |-> 0]
  IN [k \in 1..(Len(padded) \div 8) |->
        padded[8 * k - 7] * 128 + padded[8 * k - 6] * 64 + padded[8 * k - 5] * 32
          + padded[8 * k - 4] * 16 + padded[8 * k - 3] * 8 + padded[8 * k - 2] * 4
          + padded[8 * k - 1] * 2 + padded[8 * k]]

\* C19: after any sequence of BitWriter.write calls and close, no call having raised,
\* the file holds the low num_bits bits of each value, in call order, most significant
\* bit first, padded with zero bits up to a byte boundary
C19_Packing ==
  /\ ~unit.writer.bad
  /\ unit.closed => unit.writer.file = Packed(WrittenBits(history))

\* the bits of the file, most significant bit of each byte first
FileBits(f) == [i \in 1..(8 * Len(f)) |-> (f[((i - 1) \div 8) + 1] \div (2 ^ (7 - ((i - 1) % 8)))) % 2]

\* bits returned by the first k reads of the history
RECURSIVE Consumed(_)
Consumed(k) ==
  IF k = 0 THEN 0
  ELSE Consumed(k - 1) + (IF history[k][2] = None THEN 0 ELSE history[k][1])

\* value of the bits b[from + 1 .. from + n] read as an integer, first bit highest
RECURSIVE BitsValue(_, _, _)
BitsValue(b, from, n) ==
  IF n = 0 THEN 0 ELSE 2 * BitsValue(b, from, n - 1) + b[from + n]

\* C20: BitReader.read(n) returns None exactly when fewer than n unread bits remain,
\* and otherwise the next n bits as an integer, most significant bit first
C20_ReadBits ==
  \A k \in 1..Len(history) :
    LET n == history[k][1]
        unread == 8 * Len(unit.file) - Consumed(k - 1)
    IN IF unread < n
       THEN history[k][2] = None
       ELSE history[k][2] = BitsValue(FileBits(unit.file), Consumed(k - 1), n)

\* a read that found too few bits, and a later read of fewer bits that returned a
\* value with a one bit, taken from the bits the failed read had loaded
C20_Witness ==
  \E i, j \in 1..Len(history) :
    /\ i < j
    /\ history[i][2] = None
    /\ history[j][1] > 0
    /\ history[j][2] # None /\ history[j][2] > 0

\* no two phrases of the compressor's dictionary (phrase -> code) have the same code
EncInjective ==
  \A p, q \in DOMAIN enc.dictionary : enc.dictionary[p] = enc.dictionary[q] => p = q

\* no two codes of the decompressor's dictionary (code -> phrase) hold the same phrase
DecInjective ==
  \A c, d \in DOMAIN dec.dictionary :
    (dec.dictionary[c] = dec.dictionary[d] /\ dec.dictionary[c] # NonePhrase) => c = d

\* C21: after every code emitted and every code decoded, the dictionary of the
\* compressor and the dictionary of the decompressor are injective in both directions
C21_Injective == EncInjective /\ DecInjective

\* the phrase p without its last symbol
Prefix(p) == SubSeq(p, 1, Len(p) - 1)

\* C22: after every step of the compressor, every phrase of length 3 or more in its
\* dictionary has its one-symbol-shorter prefix in the dictionary too
C22_PrefixClosed ==
  \A p \in DOMAIN enc.dictionary : Len(p) >= 3 => Prefix(p) \in DOMAIN enc.dictionary

\* multi-symbol phrases of the compressor's dictionary
EncEntries == Cardinality({p \in DOMAIN enc.dictionary : Len(p) >= 2})

\* codes of the decompressor's dictionary that hold a multi-symbol phrase
DecEntries ==
  Cardinality({c \in DOMAIN dec.dictionary :
                 dec.dictionary[c] # NonePhrase /\ Len(dec.dictionary[c]) >= 2})

\* the compressor side of C23, with the reserved codes of the policy
EncFitsWidth ==
  cpc \in {"loop", "done"} => EncEntries + Len(ALPHABETS(alphabet_name)) + ReservedCodes <= 2 ^ enc.code_bits

\* the decompressor side of C23
DecFitsWidth ==
  dpc \in {"body", "done"} =>
    DecEntries + Len(ALPHABETS(alphabet_name)) + ReservedCodes <= 2 ^ dec.code_bits

\* C23: between any two steps of compress and of decompress, the number of multi-symbol
\* dictionary entries plus the alphabet size plus the reserved codes (EOF_CODE, and
\* EVICT_SIGNAL where the policy has one) is at most 2 to the current code width
C23_FitsWidth == EncFitsWidth /\ DecFitsWidth

\* phrases the compressor's dictionary loses in a step
EncVictims == DOMAIN enc.dictionary \ DOMAIN enc.dictionary'

\* phrases the compressor's dictionary gains in a step
EncNew == DOMAIN enc.dictionary' \ DOMAIN enc.dictionary

\* codes of the decompressor's dictionary whose phrase is removed or replaced in a step
DecVictims ==
  {c \in DOMAIN dec.dictionary :
     /\ dec.dictionary[c] # NonePhrase
     /\ c \in DOMAIN dec.dictionary'
     /\ dec.dictionary'[c] # dec.dictionary[c]}

\* C24: under LFU, a step of compress that evicts a phrase stores the new phrase under
\* the code the victim had, and a step of decompress that evicts a code stores the new
\* phrase at that code
C24_VictimSlotReused ==
  [][policy = "lfu" =>
       /\ cpc = "loop" =>
            \A v \in EncVictims : \E n \in EncNew : enc.dictionary'[n] = enc.dictionary[v]
       /\ dpc = "body" =>
            \A c \in DecVictims : dec.dictionary'[c] # NonePhrase]_vars

\* C25: in a run of compress of lzw_lfu.py at most one eviction occurs
C25_OneEviction == policy = "lfu" => obs.evictions <= 1

\* compress of lzw_lfu.py has evicted once and has emitted two more codes with the
\* dictionary full since
C25_Witness ==
  /\ policy = "lfu"
  /\ obs.evictions = 1
  /\ enc.next_code = max_size
  /\ obs.emitted >= max_size - Len(ALPHABETS(alphabet_name)) + 1

\* a step of the main loop of compress that emits a code with the dictionary full
EmitsWhenFull ==
  /\ cpc = "loop" /\ cpc' = "loop"
  /\ enc.next_code = max_size
  /\ obs.emitted' = obs.emitted + 1

\* C26: under LRU-basic every step of compress that emits a code with the dictionary
\* full evicts exactly one phrase and inserts exactly one, and the dictionary stays full
C26_ContinuousEviction ==
  [][(policy = "lru_naive" /\ EmitsWhenFull) =>
       /\ obs.evictions' = obs.evictions + 1
       /\ Cardinality(EncVictims) = 1
       /\ EncNew = {enc.current \o <<input[pos']>>}
       /\ LiveEnc' = max_size - 1
       /\ LiveEnc = max_size - 1
       /\ enc.next_code' = max_size]_vars

\* compress of lzw_lru_naive.py has evicted at three emitted codes and has finished with
\* the dictionary full
C26_Witness ==
  /\ policy = "lru_naive"
  /\ cpc = "done"
  /\ obs.evictions >= 3
  /\ LiveEnc = max_size - 1

\* the widths of the fields compress has written, in order
WrittenWidths == [i \in 1..Len(writer.log) |-> writer.log[i][2]]

\* C27: on the artifact compress produced, every field decompress has read (header
\* field, data code, field of a resync packet, EOF_CODE) was read at the width at which
\* compress wrote the field at the same position
C27_SameWidths ==
  (channel = "intact" /\ cpc = "done") =>
    /\ Len(reader.log) <= Len(writer.log)
    /\ \A i \in 1..Len(reader.log) : reader.log[i] = WrittenWidths[i]

\* C28: under LRU-basic, on an intact artifact, the k-th insertion decompress makes with
\* its dictionary full uses the code and stores the phrase of the k-th insertion compress
\* made with its dictionary full
C28_SameEvictions ==
  (policy = "lru_naive" /\ channel = "intact") =>
    /\ Len(obs.dec_full) <= Len(obs.enc_full)
    /\ \A k \in 1..Len(obs.dec_full) : obs.dec_full[k] = obs.enc_full[k]

\* a step of decompress that took the branch "elif codeword == next_code"
SpecialStep == dpc = "body" /\ obs.specials' = obs.specials + 1

\* C29: on an intact artifact, when decompress receives a code equal to its next free
\* code, compress has stored prev + prev[0] under that code, and prev + prev[0] is the
\* phrase decompress writes and the part of the input compress emitted with that code
C29_SpecialCase ==
  [][(channel = "intact" /\ SpecialStep) =>
       /\ out' = out \o SpecialCase(dec.prev)
       /\ Len(out') <= Len(input)
       /\ SubSeq(input, 1, Len(out')) = out'
       /\ policy = "freeze" =>
            /\ SpecialCase(dec.prev) \in DOMAIN enc.dictionary
            /\ enc.dictionary[SpecialCase(dec.prev)] = dec.next_code]_vars

\* a step of the main loop of decompress that decodes a data code
DataStep == dpc = "body" /\ obs.decoded' = obs.decoded + 1

\* the step stores a phrase in the dictionary of decompress
DecInserts == dec.next_code' # dec.next_code \/ dec.dictionary' # dec.dictionary

\* C30: in the decompressors of the signalled tools, on an intact artifact, a step that
\* decodes a data code makes no insertion when the field before that code was a resync
\* signal, and makes its insertion when it was not
C30_SkipAfterSignal ==
  [][(policy \in Signalled /\ channel = "intact" /\ DataStep) =>
       (DecInserts <=> obs.last # "signal")]_vars

\* the phrases a step of compress may touch: the phrase whose code it emits and the
\* phrase it inserts
Touched ==
  {enc.current} \cup
  (IF pos < Len(input) THEN {enc.current \o <<input[pos + 1]>>} ELSE {})

\* the other phrases keep their place in the recency order (LRUTracker), or their
\* frequency and their place in their bucket (LFUTracker); a victim only disappears
OthersKeepRank ==
  IF policy = "lfu"
  THEN /\ \A k \in DOMAIN enc.tracker'.key_to_node \ Touched :
            /\ k \in DOMAIN enc.tracker.key_to_node
            /\ enc.tracker'.key_to_node[k] = enc.tracker.key_to_node[k]
       /\ \A f \in DOMAIN enc.tracker'.freq_to_list :
            SelectSeq(enc.tracker'.freq_to_list[f], LAMBDA k : k \notin Touched)
              = SelectSeq(Bucket(enc.tracker, f),
                          LAMBDA k : k \notin Touched /\ k \in DOMAIN enc.tracker'.key_to_node)
  ELSE SelectSeq(enc.tracker', LAMBDA k : k \notin Touched)
         = SelectSeq(enc.tracker, LAMBDA k : k \notin Touched /\ LRU_contains(enc.tracker', k))

\* C31: a step of compress that extends the current match leaves the recency or
\* frequency index as it is, and a step that emits a code changes the rank of no phrase
\* other than the one emitted and the one inserted
C31_TouchOnlyOnEmit ==
  [][(cpc = "loop" /\ cpc' \in {"loop", "done"}) =>
       IF obs.emitted' = obs.emitted
       THEN enc.tracker' = enc.tracker
       ELSE OthersKeepRank]_vars

\* the current match has just been extended through a phrase the index tracks, which is
\* not the most recent one
C31_Witness ==
  /\ policy \in {"lru_naive", "lru"}
  /\ cpc = "loop"
  /\ Len(enc.current) >= 2
  /\ LRU_contains(enc.tracker, enc.current)
  /\ enc.tracker[1] # enc.current
  /\ obs.emitted >= 3

\* the keys of a recency or frequency index
TrackerKeys(t) ==
  IF policy \in Counting THEN DOMAIN t.key_to_node ELSE {t[i] : i \in 1..Len(t)}

\* C32: the index of compress holds no single-symbol phrase, and the index of
\* decompress holds no alphabet code and not EOF_CODE
C32_AlphabetUntracked ==
  /\ \A p \in TrackerKeys(enc.tracker) : Len(p) >= 2
  /\ dpc \in {"body", "done"} =>
       \A c \in TrackerKeys(dec.tracker) : c >= Len(ALPHABETS(alphabet_name)) + 1

\* both indexes hold keys; the last code compress emitted and the last code decompress
\* decoded are the code of a single symbol
C32_Witness ==
  /\ policy # "freeze"
  /\ cpc = "done" /\ dpc = "done"
  /\ TrackerKeys(enc.tracker) # {}
  /\ TrackerKeys(dec.tracker) # {}
  /\ Len(enc.current) = 1
  /\ Len(dec.prev) = 1
  /\ obs.evictions >= 1

\* bits of the file decompress has not consumed yet
BitsLeft == 8 * (Len(file) - reader.pos) + reader.n_bits

\* C33: every iteration of the main loop of decompress that does not end the run
\* consumes at least one bit of the file, so the loop ends on every finite file
C33_LoopConsumes ==
  [][(dpc = "body" /\ dpc' = "body") => BitsLeft' < BitsLeft]_vars

\* C34: under valid parameters every value compress has passed to BitWriter.write is
\* smaller than 2^n for the width n of the call
C34_ValuesFit ==
  \A i \in 1..Len(writer.log) : writer.log[i][1] < 2 ^ writer.log[i][2]

\* compress has finished a run in which a resync packet was written, its EVICT_SIGNAL
\* being the largest value of its width, followed by a data code and EOF_CODE
C34_Witness ==
  /\ cpc = "done"
  /\ obs.signals >= 1
  /\ \E i \in 1..Len(writer.log) : writer.log[i] = <<EVICT_SIGNAL, max_bits>>
  /\ writer.log[Len(writer.log)] = <<EOF_CODE, max_bits>>

\* C35: on an artifact of the matching compressor, decompress never looks up a data code
\* whose dictionary slot holds None (the lookup ends the run with AttributeError)
C35_NoNoneLookup ==
  channel = "intact" => ~(dpc = "error" /\ derr = "AttributeError")

\* the codes that stand for no phrase: EOF_CODE, and EVICT_SIGNAL where packets are written
ReservedCodeSet ==
  {EOF_CODE} \cup (IF policy \in Signalled \cup CleanPolicies THEN {EVICT_SIGNAL} ELSE {})

\* C36: no phrase of the compressor has the code EOF_CODE and no slot EOF_CODE of the
\* decompressor is filled; in the tools with resync packets the same holds of EVICT_SIGNAL
C36_ReservedCodesFree ==
  /\ \A p \in DOMAIN enc.dictionary : enc.dictionary[p] \notin ReservedCodeSet
  /\ dpc \in {"body", "done"} => DOMAIN dec.dictionary \cap ReservedCodeSet = {}

\* the values a new BitReader over f returns when it reads the widths in order
RECURSIVE ReadBack(_, _, _)
ReadBack(r, f, widths) ==
  IF widths = <<>> THEN <<>>
  ELSE LET res == BitReader_read(r, f, Head(widths))
       IN <<res.value>> \o ReadBack(res.reader, f, Tail(widths))

WritesFit == \A i \in 1..Len(history) : history[i][1] < 2 ^ history[i][2]

\* C37: after writes (v_i, n_i) with v_i < 2^n_i and close, a BitReader over the bytes
\* written that reads the widths n_1, n_2, ... in order returns v_1, v_2, ... in order
C37_WriteReadRoundTrip ==
  (unit.closed /\ WritesFit) =>
    ReadBack(NewBitReader, unit.writer.file, [i \in 1..Len(history) |-> history[i][2]])
      = [i \in 1..Len(history) |-> history[i][1]]

\* a closed writer after MaxWrites fitting writes, one of them nine bits wide and not all
\* zero, whose bits do not fill a whole number of bytes
C37_Witness ==
  /\ unit.closed
  /\ WritesFit
  /\ Len(history) = MaxWrites
  /\ \E i \in 1..Len(history) : history[i] = <<511, 9>>
  /\ \E i \in 1..Len(history) : history[i][1] = 0
  /\ (history[1][2] + history[2][2] + history[3][2] + history[4][2]) % 8 # 0

\* the call made by the step: <<"use", key>> or <<"remove", key>>
StepCall == history'[Len(history')]

\* the step is a use of a tracked key that is alone in the min_freq bucket
PromotesSoleMin ==
  /\ StepCall[1] = "use"
  /\ StepCall[2] \in DOMAIN unit.key_to_node
  /\ Bucket(unit, unit.min_freq) = <<StepCall[2]>>

\* C38 as stated: on a tracker that holds keys, min_freq never decreases, and it
\* increases only when a use promotes the sole key out of the min_freq bucket
C38_MinFreqMonotone ==
  [][(Len(history') = Len(history) + 1 /\ DOMAIN unit.key_to_node # {}) =>
       /\ unit'.min_freq >= unit.min_freq
       /\ unit'.min_freq > unit.min_freq => PromotesSoleMin]_vars

\* C38 amended: use of an untracked key sets min_freq to 1, use of a tracked key raises
\* it by one exactly when the key was alone in the min_freq bucket, and remove leaves it
C38_MinFreqSteps ==
  [][Len(history') = Len(history) + 1 =>
       unit'.min_freq =
         IF StepCall[1] = "remove" THEN unit.min_freq
         ELSE IF StepCall[2] \notin DOMAIN unit.key_to_node THEN 1
         ELSE IF PromotesSoleMin THEN unit.min_freq + 1
         ELSE unit.min_freq]_vars

\* key 1 used twice (min_freq 2), key 2 entered (min_freq back to 1) and used again
\* (min_freq 2 again)
C38_Witness ==
  /\ Len(history) = 4
  /\ history = <<<<"use", 1>>, <<"use", 1>>, <<"use", 2>>, <<"use", 2>>>>
  /\ unit.min_freq = 2

\* the two halves of the index property; lzw_freeze.py has no index, nor has the
\* decompressor of lzw_lru.py
EncIndexMatches ==
  (policy # "freeze" /\ cpc \in {"loop", "done"}) =>
    TrackerKeys(enc.tracker) = {p \in DOMAIN enc.dictionary : Len(p) >= 2}

DecIndexMatches ==
  (policy \notin {"freeze", "lru"} /\ dpc \in {"body", "done"}) =>
    TrackerKeys(dec.tracker) =
      {c \in DOMAIN dec.dictionary : c >= dec.alphabet_size + 1 /\ dec.dictionary[c] # NonePhrase}

\* C39: the keys of a compressor's index are the phrases of two or more symbols in its
\* dictionary, and the keys of a decompressor's index are the codes above EOF_CODE whose
\* slot holds a phrase
C39_IndexMatchesDictionary == EncIndexMatches /\ DecIndexMatches

\* the decompressor half with the slots set to None by the tools of src/Clean counted in
DecIndexMatchesSlots ==
  (policy \notin {"freeze", "lru"} /\ dpc \in {"body", "done"}) =>
    TrackerKeys(dec.tracker) =
      {c \in DOMAIN dec.dictionary :
         /\ c >= dec.alphabet_size + 1
         /\ (policy \notin CleanPolicies => dec.dictionary[c] # NonePhrase)}

\* C39 amended: the keys of a decompressor's index are the codes above EOF_CODE whose slot
\* is filled; in the tools of src/Clean a slot set to None counts as filled, in lzw_lfu.py
\* it does not
C39_IndexMatchesSlots == EncIndexMatches /\ DecIndexMatchesSlots

\* a decompressor of src/Clean holds a slot set to None whose code is in its index, while
\* the compressor's index holds the phrase that took that code
C39_Witness ==
  /\ policy \in CleanPolicies
  /\ cpc = "done" /\ dpc = "body"
  /\ \E c \in DOMAIN dec.dictionary :
       /\ dec.dictionary[c] = NonePhrase
       /\ c \in TrackerKeys(dec.tracker)
       /\ \E p \in TrackerKeys(enc.tracker) : enc.dictionary[p] = c

====
